---- MODULE Spec2Model ----
(***************************************************************************)
(* Verification model of hypergraph-storage: the query builder            *)
(* (src/query/query.ts, src/query/parse-nested-path.ts), the cursor tokens *)
(* (src/pagination/pagination.ts), the repository over the typeorm store   *)
(* (src/repository) and the Firestore builder (src/firestore-query).       *)
(*                                                                         *)
(* JavaScript values are tagged records:                                   *)
(*   Undef, Null, Num(n), Str(s), Bool(b)   primitives                     *)
(*   Op(kind, value)                        a typeorm FindOperator         *)
(*   Obj(f)                                 a plain object, f : key -> val *)
(*   Arr(s)                                 an array, s a sequence         *)
(* A string is a sequence of tokens, Str(<<"John">>), Str(<<>>) the empty   *)
(* string.  A path string is a sequence of tokens; the token "." is the dot         *)
(* character, every other token is a run of name characters.  A key is a   *)
(* sequence of name tokens (the text between two dots).                    *)
(***************************************************************************)
EXTENDS Integers, Sequences, FiniteSets, TLC

\* ------------------------------------------------------------------ bounds
MaxSteps == 2

\* --------------------------------------------------------------- constants
DEFAULT_PAGE_SIZE == 20
DEFAULT_CACHE_TIME == 5000

\* ------------------------------------------------------------------ values
Undef == [t |-> "undef"]
Null == [t |-> "null"]
Num(n) == [t |-> "num", n |-> n]
Str(s) == [t |-> "str", s |-> s]
Bool(b) == [t |-> "bool", b |-> b]
Op(kind, value) == [t |-> "op", k |-> kind, v |-> value]
Obj(f) == [t |-> "obj", f |-> f]
Arr(s) == [t |-> "arr", s |-> s]

EmptyObj == Obj(<<>>)
Zero == Num(0)
EmptyStr == Str(<<>>)
True == Bool(TRUE)

Dot == "."
K(name) == <<name>>

\* JavaScript ToBoolean, as used by `!where`, `!limit`, `!pagination`.
IsTruthy(v) ==
  CASE v.t = "undef" -> FALSE
    [] v.t = "null" -> FALSE
    [] v.t = "num" -> v.n # 0
    [] v.t = "str" -> v.s # <<>>
    [] v.t = "bool" -> v.b
    [] OTHER -> TRUE

\* tsds-tools isDefined: neither undefined nor null.
isDefined(v) == v.t \notin {"undef", "null"}

\* a ?? b
Coalesce(a, b) == IF isDefined(a) THEN a ELSE b

\* Own enumerable keys of a value, as seen by `{...v}`, `for (k in v)` and
\* property reads.  A FindOperator exposes its private fields, an array its
\* indices, a primitive nothing.
OwnFields(v) ==
  CASE v.t = "obj" -> v.f
    [] v.t = "op" -> (K("_type") :> Str(v.k)) @@ (K("_value") :> v.v)
    [] v.t = "arr" -> [k \in {K(ToString(i - 1)) : i \in 1..Len(v.s)} |->
                         v.s[CHOOSE i \in 1..Len(v.s) : K(ToString(i - 1)) = k]]
    [] OTHER -> <<>>

\* value[key]
GetKey(v, key) == IF key \in DOMAIN OwnFields(v) THEN OwnFields(v)[key] ELSE Undef

\* { ...v, [key]: value }
Assign(v, key, value) ==
  Obj([k \in (DOMAIN OwnFields(v)) \cup {key} |->
         IF k = key THEN value ELSE OwnFields(v)[k]])

RECURSIVE GetPath(_, _)
\* value.k1.k2...kn, undefined as soon as a step is missing
GetPath(v, keys) ==
  IF keys = <<>> THEN v ELSE GetPath(GetKey(v, Head(keys)), Tail(keys))

\* ---------------------------------------------------- parse-nested-path.ts
RECURSIVE Split(_)
\* String.prototype.split('.')
Split(path) ==
  IF \A i \in 1..Len(path) : path[i] # Dot
  THEN <<path>>
  ELSE LET d == CHOOSE i \in 1..Len(path) :
                  path[i] = Dot /\ \A j \in 1..(i - 1) : path[j] # Dot
       IN <<SubSeq(path, 1, d - 1)>> \o Split(SubSeq(path, d + 1, Len(path)))

RECURSIVE Join(_)
\* Array.prototype.join('.')
Join(segments) ==
  IF segments = <<>> THEN <<>>
  ELSE IF Len(segments) = 1 THEN segments[1]
  ELSE segments[1] \o <<Dot>> \o Join(Tail(segments))

parseNestedPath(path) == Split(path)

isNestedPath(path) == \E i \in 1..Len(path) : path[i] = Dot

RECURSIVE WrapFrom(_, _, _)
\* for (i = n; i >= 0; i--) result = { [segments[i]]: result }
WrapFrom(segments, i, result) ==
  IF i < 1 THEN result
  ELSE WrapFrom(segments, i - 1, Obj(segments[i] :> result))

buildNestedWhere(path, value) ==
  LET segments == parseNestedPath(path)
  IN WrapFrom(segments, Len(segments), value)

\* getRelationPath that keeps the final field
getRelationPathWhole(path) ==
  LET segments == parseNestedPath(path)
  IN IF Len(segments) <= 1 THEN Null ELSE Str(Join(segments))

getRelationPath(path) ==
  LET segments == parseNestedPath(path)
  IN IF Len(segments) <= 1 THEN Null
     ELSE Str(Join(SubSeq(segments, 1, Len(segments) - 1)))

buildRelationsObject(relationPath) ==
  LET segments == parseNestedPath(relationPath)
  IN WrapFrom(segments, Len(segments), True)

isPlainObject(v) == v.t \in {"obj", "op", "date"}

isSpecialObject(v) ==
  IF ~isPlainObject(v) THEN FALSE
  ELSE IF v.t = "op" THEN TRUE
  ELSE IF K("_type") \in DOMAIN OwnFields(v) THEN TRUE
  ELSE IF v.t = "date" THEN TRUE
  ELSE FALSE

RECURSIVE deepMerge(_, _)
deepMerge(target, source) ==
  LET tf == OwnFields(target)
      sf == OwnFields(source)
  IN Obj([key \in (DOMAIN tf) \cup (DOMAIN sf) |->
       IF key \notin DOMAIN sf THEN tf[key]
       ELSE LET sourceValue == sf[key]
                targetValue == IF key \in DOMAIN tf THEN tf[key] ELSE Undef
            IN IF isPlainObject(targetValue) /\ isPlainObject(sourceValue)
                  /\ ~isSpecialObject(sourceValue)
               THEN deepMerge(targetValue, sourceValue)
               ELSE sourceValue])

\* ------------------------------------------------ tsds-tools setProperty
RECURSIVE SetKeys(_, _, _)
SetKeys(keys, value, object) ==
  IF Len(keys) = 1 THEN Assign(object, keys[1], value)
  ELSE Assign(object, keys[1],
              SetKeys(Tail(keys), value, GetKey(object, keys[1])))

\* setProperty(path, value, object): a copy of object with value stored at
\* the dotted path; the objects along the path are copied, never mutated.
setProperty(path, value, object) == SetKeys(Split(path), value, object)

\* ------------------------------------------------------- typeorm operators
Not(value) == Op("not", value)
MoreThan(value) == Op("moreThan", value)
MoreThanOrEqual(value) == Op("moreThanOrEqual", value)
LessThan(value) == Op("lessThan", value)
LessThanOrEqual(value) == Op("lessThanOrEqual", value)
Between(from, to) == Op("between", Arr(<<from, to>>))
Like(value) == Op("like", value)
ILike(value) == Op("ilike", value)
In(value) == Op("in", value)
IsNull == Op("isNull", Undef)
ArrayContains(value) == Op("arrayContains", value)
ArrayOverlap(value) == Op("arrayOverlap", value)

\* `${value}` for the values a text operator receives
Template(v) ==
  CASE v.t = "str" -> v.s
    [] v.t = "num" -> <<ToString(v.n)>>
    [] v.t = "bool" -> IF v.b THEN <<"true">> ELSE <<"false">>
    [] OTHER -> <<v.t>>

\* ------------------------------------------------------------ pagination.ts
\* A text is a sequence of bytes (its UTF-8 encoding); a token is a Str of
\* one-character strings.

\* the base64 alphabet, sextet i at position i + 1
B64 ==
  <<"A", "B", "C", "D", "E", "F", "G", "H", "I", "J", "K", "L", "M", "N", "O", "P",
    "Q", "R", "S", "T", "U", "V", "W", "X", "Y", "Z", "a", "b", "c", "d", "e", "f",
    "g", "h", "i", "j", "k", "l", "m", "n", "o", "p", "q", "r", "s", "t", "u", "v",
    "w", "x", "y", "z", "0", "1", "2", "3", "4", "5", "6", "7", "8", "9", "+", "/">>

Pad == "="

RECURSIVE EncodeGroups(_)
\* Buffer.prototype.toString('base64'): three bytes to four characters,
\* the last group padded with '='
EncodeGroups(bytes) ==
  IF bytes = <<>> THEN <<>>
  ELSE IF Len(bytes) = 1
  THEN <<B64[(bytes[1] \div 4) + 1], B64[(bytes[1] % 4) * 16 + 1], Pad, Pad>>
  ELSE IF Len(bytes) = 2
  THEN <<B64[(bytes[1] \div 4) + 1],
         B64[(bytes[1] % 4) * 16 + (bytes[2] \div 16) + 1],
         B64[(bytes[2] % 16) * 4 + 1], Pad>>
  ELSE <<B64[(bytes[1] \div 4) + 1],
         B64[(bytes[1] % 4) * 16 + (bytes[2] \div 16) + 1],
         B64[(bytes[2] % 16) * 4 + (bytes[3] \div 64) + 1],
         B64[(bytes[3] % 64) + 1]>> \o EncodeGroups(SubSeq(bytes, 4, Len(bytes)))

\* the sextet a character stands for, -1 when it is none ('-' and '_' are
\* accepted for '+' and '/')
unbase64(c) ==
  IF c = "-" THEN 62
  ELSE IF c = "_" THEN 63
  ELSE IF \E i \in 1..64 : B64[i] = c THEN (CHOOSE i \in 1..64 : B64[i] = c) - 1
  ELSE -1

RECURSIVE Sextets(_)
\* the sextets of the characters before the first '=', other characters skipped
Sextets(chars) ==
  IF chars = <<>> \/ Head(chars) = Pad THEN <<>>
  ELSE (IF unbase64(Head(chars)) >= 0 THEN <<unbase64(Head(chars))>> ELSE <<>>)
       \o Sextets(Tail(chars))

RECURSIVE DecodeWholeGroups(_)
\* a decoder that drops a last group of fewer than four sextets
DecodeWholeGroups(six) ==
  IF Len(six) < 4 THEN <<>>
  ELSE <<six[1] * 4 + (six[2] \div 16), (six[2] % 16) * 16 + (six[3] \div 4),
         (six[3] % 4) * 64 + six[4]>> \o DecodeWholeGroups(SubSeq(six, 5, Len(six)))

RECURSIVE DecodeGroups(_)
\* Buffer.from(string, 'base64'): four sextets to three bytes, a last group
\* of two or three sextets to one or two bytes
DecodeGroups(six) ==
  IF Len(six) < 2 THEN <<>>
  ELSE IF Len(six) = 2 THEN <<six[1] * 4 + (six[2] \div 16)>>
  ELSE IF Len(six) = 3
  THEN <<six[1] * 4 + (six[2] \div 16), (six[2] % 16) * 16 + (six[3] \div 4)>>
  ELSE <<six[1] * 4 + (six[2] \div 16), (six[2] % 16) * 16 + (six[3] \div 4),
         (six[3] % 4) * 64 + six[4]>> \o DecodeGroups(SubSeq(six, 5, Len(six)))

RECURSIVE Digits(_)
\* the decimal digits of a non-negative integer, as bytes
Digits(n) == IF n < 10 THEN <<48 + n>> ELSE Digits(n \div 10) \o <<48 + (n % 10)>>

LBracket == 91
RBracket == 93
Comma == 44
LBrace == 123
RBrace == 125
NullText == <<110, 117, 108, 108>>
TrueText == <<116, 114, 117, 101>>
FalseText == <<102, 97, 108, 115, 101>>

RECURSIVE stringify(_)
\* JSON.stringify of null, booleans, non-negative integers, {} and arrays of them
stringify(v) ==
  CASE v.t = "num" -> Digits(v.n)
    [] v.t = "bool" -> IF v.b THEN TrueText ELSE FalseText
    [] v.t = "obj" -> <<LBrace, RBrace>>
    [] v.t = "arr" ->
         <<LBracket>>
         \o (IF v.s = <<>> THEN <<>>
             ELSE stringify(Head(v.s))
                  \o (IF Len(v.s) = 1 THEN <<>>
                      ELSE <<Comma>> \o SubSeq(stringify(Arr(Tail(v.s))), 2,
                                               Len(stringify(Arr(Tail(v.s)))) - 1)))
         \o <<RBracket>>
    [] OTHER -> NullText

toBase64(object) == Str(EncodeGroups(stringify(object)))

Whitespace == {32, 9, 10, 13}

RECURSIVE SkipWs(_)
SkipWs(text) ==
  IF text # <<>> /\ Head(text) \in Whitespace THEN SkipWs(Tail(text)) ELSE text

StartsWith(text, word) == Len(text) >= Len(word) /\ SubSeq(text, 1, Len(word)) = word
Drop(text, n) == SubSeq(text, n + 1, Len(text))

\* the result of parsing a prefix of a text: the value and the text left, or
\* a syntax error
Parsed(v, rest) == [ok |-> TRUE, v |-> v, rest |-> rest]
SyntaxError == [ok |-> FALSE, v |-> Undef, rest |-> <<>>]

RECURSIVE ParseDigits(_, _)
\* the digits after the first one
ParseDigits(n, text) ==
  IF text # <<>> /\ Head(text) \in 48..57
  THEN ParseDigits(n * 10 + (Head(text) - 48), Tail(text))
  ELSE Parsed(Num(n), text)

RECURSIVE ParseValue(_)
RECURSIVE ParseElements(_, _)

\* after an element: ',' and another element, or ']'
ParseMore(items, r) ==
  IF ~r.ok THEN SyntaxError
  ELSE IF SkipWs(r.rest) # <<>> /\ Head(SkipWs(r.rest)) = Comma
  THEN ParseElements(Append(items, r.v), Tail(SkipWs(r.rest)))
  ELSE IF SkipWs(r.rest) # <<>> /\ Head(SkipWs(r.rest)) = RBracket
  THEN Parsed(Arr(Append(items, r.v)), Tail(SkipWs(r.rest)))
  ELSE SyntaxError

ParseElements(items, text) == ParseMore(items, ParseValue(text))

\* one JSON value at the start of t (leading whitespace removed): null, true,
\* false, a non-negative integer, {} or an array of values.  The texts in
\* use hold no string literal, object member, sign, fraction or exponent.
ParseToken(t) ==
  IF t = <<>> THEN SyntaxError
  ELSE IF StartsWith(t, NullText) THEN Parsed(Null, Drop(t, 4))
  ELSE IF StartsWith(t, TrueText) THEN Parsed(Bool(TRUE), Drop(t, 4))
  ELSE IF StartsWith(t, FalseText) THEN Parsed(Bool(FALSE), Drop(t, 5))
  ELSE IF Head(t) = 48 THEN Parsed(Num(0), Tail(t))
  ELSE IF Head(t) \in 49..57 THEN ParseDigits(Head(t) - 48, Tail(t))
  ELSE IF Head(t) = LBrace
  THEN (IF SkipWs(Tail(t)) # <<>> /\ Head(SkipWs(Tail(t))) = RBrace
        THEN Parsed(EmptyObj, Tail(SkipWs(Tail(t)))) ELSE SyntaxError)
  ELSE IF Head(t) = LBracket
  THEN (IF SkipWs(Tail(t)) # <<>> /\ Head(SkipWs(Tail(t))) = RBracket
        THEN Parsed(Arr(<<>>), Tail(SkipWs(Tail(t))))
        ELSE ParseElements(<<>>, Tail(t)))
  ELSE SyntaxError

ParseValue(text) == ParseToken(SkipWs(text))

\* the whole text is one value
WholeText(r) == IF r.ok /\ SkipWs(r.rest) = <<>> THEN r ELSE SyntaxError

\* JSON.parse(text)
parse(text) == WholeText(ParseValue(text))

\* the outcome of a function that may throw
Returned(v) == [err |-> "", v |-> v]
Thrown(err) == [err |-> err, v |-> Undef]

ERR_INVALID_BASE64 == "Invalid base64 string"
ERR_INVALID_TOKEN == "Invalid next token"
ERR_NOT_ITERABLE == "TypeError: object is not iterable"

jsonOrThrow(r) == IF r.ok THEN Returned(r.v) ELSE Thrown(ERR_INVALID_BASE64)

fromBase64(base64String) ==
  IF ~isDefined(base64String) THEN Returned(Undef)
  ELSE jsonOrThrow(parse(DecodeGroups(Sextets(base64String.s))))

\* toPaginationToken({ skip = 0, take = 20 })
toPaginationToken(skip, take) ==
  toBase64(Arr(<<IF skip.t = "undef" THEN Zero ELSE skip,
                 IF take.t = "undef" THEN Num(20) ELSE take>>))

rethrowInvalidToken(r) == IF r.err # "" THEN Thrown(ERR_INVALID_TOKEN) ELSE r

decodeNextToken(next) ==
  IF IsTruthy(next) THEN rethrowInvalidToken(fromBase64(next)) ELSE Returned(Null)

\* ---------------------------------------------------------------- builders
\* A builder is [cls, query, ctx]; query is the FindManyOptions object.
QueryContext(join, or) == [insideWhereJoin |-> join, insideWhereOr |-> or]

DefaultQuery ==
  Obj((K("cache") :> Num(DEFAULT_CACHE_TIME)) @@ (K("take") :> Num(DEFAULT_PAGE_SIZE)))

NewBuilder(cls) == [cls |-> cls, query |-> DefaultQuery, ctx |-> QueryContext(FALSE, FALSE)]

\* A directive is one method call: m the method, p the key or path, v and w
\* the value arguments, ks further keys (fetchRelation), subs the callbacks,
\* each callback a chain of directives applied to the builder it is handed.
Dir(m, p, v, w, ks, subs) == [m |-> m, p |-> p, v |-> v, w |-> w, ks |-> ks, subs |-> subs]

\* The result of a call: the handle the call returns (cls, ctx), the query
\* object it leaves behind, whether this.query now refers to a new object
\* (fresh) or the old one was written in place, and the error thrown.
Res(cls, query, ctx, fresh, err) ==
  [cls |-> cls, query |-> query, ctx |-> ctx, fresh |-> fresh, err |-> err]

Ok(b, query, fresh) == Res(b.cls, query, b.ctx, fresh, "")
Throw(b, err) == Res(b.cls, b.query, b.ctx, FALSE, err)

ERR_IN_JOIN == "whereIn() cannot be used inside whereJoin()"
ERR_IN_OR == "whereIn() cannot be used inside whereOr()"
ERR_NOT_A_METHOD == "not a method of this class"

\* TerminalQuery as a subclass of the open builder
TerminalMethodsWithWhere ==
  {"orderByAscending", "orderByDescending", "select", "fetchRelation",
   "loadRelationIds", "cache", "toQuery", "whereEqualTo", "whereJoin", "whereOr"}

TerminalMethods ==
  {"orderByAscending", "orderByDescending", "select", "fetchRelation",
   "loadRelationIds", "cache", "toQuery"}

\* a paginated terminal class that declares no next
PaginationMethodsNoNext == {"pagination", "limit"}

PaginationMethods == {"pagination", "next", "limit"}

WhereMethods ==
  {"whereEqualTo", "whereNotEqualTo", "whereMoreThan", "whereNotMoreThan",
   "whereMoreThanOrEqual", "whereNotMoreThanOrEqual", "whereLessThan",
   "whereNotLessThan", "whereLessThanOrEqual", "whereNotLessThanOrEqual",
   "whereBetween", "whereTextContains", "whereTextStartsWith",
   "whereTextEndsWith", "whereTextInAnyCaseContains",
   "whereTextInAnyCaseStartsWith", "whereTextInAnyCaseEndsWith", "whereIn",
   "whereIsNull", "whereIsNotNull", "whereArrayContains",
   "whereArrayContainsAny", "whereJoin", "whereOr"}

QueryWithWhereMethods == WhereMethods \cup {"toQuery"}

QueryMethods == QueryWithWhereMethods \cup TerminalMethods

FirestoreQueryMethods ==
  {"orderByAscending", "orderByDescending", "toOrderByMap", "select", "fetchRelation",
   "cache"}

FirestorePaginationMethods == {"pagination", "next", "limit", "filter"}

\* The methods each class declares or inherits.
MethodsOf(cls) ==
  CASE cls = "TerminalQuery" -> TerminalMethods
    [] cls = "TerminalPaginatedQuery" -> TerminalMethods \cup PaginationMethods
    [] cls = "QueryWithWhere" -> QueryWithWhereMethods
    [] cls = "Query" -> QueryMethods
    [] cls = "PaginatedQuery" -> QueryMethods \cup PaginationMethods
    [] cls = "FirestoreQueryWithWhere" -> QueryWithWhereMethods
    [] cls = "FirestoreQuery" -> QueryWithWhereMethods \cup FirestoreQueryMethods
    [] cls = "FirestorePaginatedQuery" ->
         QueryWithWhereMethods \cup FirestoreQueryMethods \cup FirestorePaginationMethods

Classes ==
  {"TerminalQuery", "TerminalPaginatedQuery", "QueryWithWhere", "Query", "PaginatedQuery"}

\* static from(source): a new handle of class cls over source's query object
From(cls, source) ==
  [cls |-> cls, query |-> source.query, ctx |-> QueryContext(FALSE, FALSE)]

\* setWhere that spreads the new value over the one already stored at key
setWhereMerging(b, key, where) ==
  LET old == GetKey(GetKey(b.query, K("where")), key)
      merged == IF isPlainObject(old) /\ isPlainObject(where)
                THEN Obj(OwnFields(where) @@ OwnFields(old))
                ELSE where
  IN IF ~IsTruthy(where) \/ key = <<>> THEN Ok(b, b.query, FALSE)
     ELSE Ok(b, setProperty(Join(<<K("where"), key>>), merged, b.query), TRUE)

setWhere(b, key, where) ==
  IF ~IsTruthy(where) \/ key = <<>> THEN Ok(b, b.query, FALSE)
  ELSE IF GetKey(b.query, K("where")).t = "arr"
  THEN LET old == GetKey(b.query, K("where")).s
       IN Ok(b, Assign(b.query, K("where"),
                       Arr([i \in 1..Len(old) |-> setProperty(key, where, old[i])])),
             FALSE)
  ELSE Ok(b, setProperty(Join(<<K("where"), key>>), where, b.query), TRUE)

\* if (relationPath) this.query.relations = deepMerge(relations ?? {}, ...)
addRelation(query, relationPath) ==
  IF IsTruthy(relationPath)
  THEN Assign(query, K("relations"),
              deepMerge(Coalesce(GetKey(query, K("relations")), EmptyObj),
                        buildRelationsObject(relationPath.s)))
  ELSE query

\* the new this.query.where: nestedWhere merged into the tree, or into every
\* alternative when where is an array
mergedWhere(where, nestedWhere) ==
  IF where.t = "arr"
  THEN Arr([i \in 1..Len(where.s) |-> deepMerge(where.s[i], nestedWhere)])
  ELSE deepMerge(Coalesce(where, EmptyObj), nestedWhere)

setNestedWhere(b, path, value) ==
  Ok(b, Assign(addRelation(b.query, getRelationPath(path)), K("where"),
               mergedWhere(GetKey(b.query, K("where")), buildNestedWhere(path, value))),
     FALSE)

\* if (isNestedPath(key)) setNestedWhere(key, operator) else setWhere(key, operator)
setDirectOrNested(b, key, operator) ==
  IF isNestedPath(key) THEN setNestedWhere(b, key, operator)
  ELSE setWhere(b, key, operator)

whereIsNull(b, key) == setDirectOrNested(b, key, IsNull)

whereIsNotNull(b, key) == setDirectOrNested(b, key, Not(IsNull))

\* whereEqualTo without the `value === undefined` line
whereEqualToNoUndef(b, key, value) == setDirectOrNested(b, key, value)

whereEqualTo(b, key, value) ==
  IF value.t = "undef" THEN whereIsNull(b, key)
  ELSE setDirectOrNested(b, key, value)

whereNotEqualTo(b, key, value) ==
  IF value.t = "undef" THEN whereIsNotNull(b, key)
  ELSE setDirectOrNested(b, key, Not(value))

\* The operator value each remaining where* method builds from its arguments.
OperatorOf(m, value, to) ==
  CASE m = "whereMoreThan" -> MoreThan(Coalesce(value, Zero))
    [] m = "whereNotMoreThan" -> Not(MoreThan(Coalesce(value, Zero)))
    [] m = "whereMoreThanOrEqual" -> MoreThanOrEqual(Coalesce(value, Zero))
    [] m = "whereNotMoreThanOrEqual" -> Not(MoreThanOrEqual(Coalesce(value, Zero)))
    [] m = "whereLessThan" -> LessThan(Coalesce(value, Zero))
    [] m = "whereNotLessThan" -> Not(LessThan(Coalesce(value, Zero)))
    [] m = "whereLessThanOrEqual" -> LessThanOrEqual(Coalesce(value, Zero))
    [] m = "whereNotLessThanOrEqual" -> Not(LessThanOrEqual(Coalesce(value, Zero)))
    [] m = "whereBetween" -> Between(Coalesce(value, Zero), Coalesce(to, Zero))
    [] m = "whereTextContains" ->
         Like(Str(<<"%">> \o Template(Coalesce(value, EmptyStr)) \o <<"%">>))
    [] m = "whereTextStartsWith" ->
         Like(Str(Template(Coalesce(value, EmptyStr)) \o <<"%">>))
    [] m = "whereTextEndsWith" ->
         Like(Str(<<"%">> \o Template(Coalesce(value, EmptyStr))))
    [] m = "whereTextInAnyCaseContains" ->
         ILike(Str(<<"%">> \o Template(Coalesce(value, EmptyStr)) \o <<"%">>))
    [] m = "whereTextInAnyCaseStartsWith" ->
         ILike(Str(Template(Coalesce(value, EmptyStr)) \o <<"%">>))
    [] m = "whereTextInAnyCaseEndsWith" ->
         ILike(Str(<<"%">> \o Template(Coalesce(value, EmptyStr))))
    [] m = "whereArrayContains" ->
         ArrayContains(IF IsTruthy(value) THEN Arr(<<value>>) ELSE Arr(<<>>))
    [] m = "whereArrayContainsAny" -> ArrayOverlap(Coalesce(value, Arr(<<>>)))

\* whereMoreThan ... whereTextInAnyCaseEndsWith share one body
whereCompare(b, m, key, value, to) == setDirectOrNested(b, key, OperatorOf(m, value, to))

\* whereArrayContains, whereArrayContainsAny: always setWhere
whereArray(b, m, key, value) == setWhere(b, key, OperatorOf(m, value, Undef))

TerminalClassOf(cls) ==
  IF cls = "PaginatedQuery" THEN "TerminalPaginatedQuery" ELSE "TerminalQuery"

\* return TerminalQuery.from(this), r the state the receiver is left in
terminalFrom(b, r) ==
  Res(TerminalClassOf(b.cls), From(TerminalClassOf(b.cls), r).query,
      From(TerminalClassOf(b.cls), r).ctx, r.fresh, "")

\* whereIn without the insideWhereOr guard
whereInNoOrGuard(b, key, value) ==
  IF b.ctx.insideWhereJoin THEN Throw(b, ERR_IN_JOIN)
  ELSE terminalFrom(b, setDirectOrNested(b, key, In(Coalesce(value, Arr(<<>>)))))

whereIn(b, key, value) ==
  IF b.ctx.insideWhereJoin THEN Throw(b, ERR_IN_JOIN)
  ELSE IF b.ctx.insideWhereOr THEN Throw(b, ERR_IN_OR)
  ELSE terminalFrom(b, setDirectOrNested(b, key, In(Coalesce(value, Arr(<<>>)))))

orderBy(b, key, direction) ==
  Ok(b, setProperty(Join(<<K("order"), key>>), Str(<<direction>>), b.query), TRUE)

select(b, key) ==
  Ok(b, setProperty(Join(<<K("select")>> \o (IF isDefined(key) THEN <<key.s>> ELSE <<>>)),
                    True, b.query), TRUE)

RECURSIVE DefinedKeys(_)
\* [key1, key2, key3, key4].filter(isDefined)
DefinedKeys(ks) ==
  IF ks = <<>> THEN <<>>
  ELSE (IF isDefined(Head(ks)) THEN <<Head(ks).s>> ELSE <<>>) \o DefinedKeys(Tail(ks))

fetchRelation(b, ks) ==
  Ok(b, setProperty(Join(<<K("relations")>> \o DefinedKeys(ks)), True, b.query), TRUE)

loadRelationIds(b, value) == Ok(b, Assign(b.query, K("loadRelationIds"), value), FALSE)

cache(b, value) == Ok(b, Assign(b.query, K("cache"), value), FALSE)

limit(b, value) ==
  IF ~IsTruthy(value) THEN Ok(b, b.query, FALSE)
  ELSE Ok(b, Assign(b.query, K("take"), value), FALSE)

\* element i of the array pattern `const [skip, take] = pair`
Element(pair, i) == IF i <= Len(pair.s) THEN pair.s[i] ELSE Undef

\* this.query.skip = skip; this.query.take = take ?? this.query.take ?? DEFAULT_PAGE_SIZE
setPage(b, skip, take) ==
  Ok(b, Assign(Assign(b.query, K("skip"), skip), K("take"),
               Coalesce(take, Coalesce(GetKey(b.query, K("take")), Num(DEFAULT_PAGE_SIZE)))),
     FALSE)

\* const [skip, take] = decoded ?? []: only an array (or a string) iterates
destructure(b, pair) ==
  IF pair.t = "arr" THEN setPage(b, Element(pair, 1), Element(pair, 2))
  ELSE Throw(b, ERR_NOT_ITERABLE)

nextDecoded(b, decoded) ==
  IF decoded.err # "" THEN Throw(b, decoded.err)
  ELSE destructure(b, Coalesce(decoded.v, Arr(<<>>)))

next(b, token) == nextDecoded(b, decodeNextToken(token))

\* .limit(pagination?.limit) on what next returned
thenLimit(b, r, value) ==
  IF r.err # "" THEN r ELSE limit([b EXCEPT !.query = r.query], value)

pagination(b, input) ==
  IF ~IsTruthy(input) THEN Ok(b, b.query, FALSE)
  ELSE thenLimit(b, next(b, GetKey(input, K("next"))), GetKey(input, K("limit")))

RECURSIVE Call(_, _)
RECURSIVE RunProg(_, _)
RECURSIVE OrResults(_, _, _)

\* the rest of a chain after a call returned r; a throw ends the chain
runRest(r, rest) ==
  IF r.err # "" THEN r
  ELSE RunProg([cls |-> r.cls, query |-> r.query, ctx |-> r.ctx], rest)

\* queryBuilder(query): the chain of directives, each applied to the handle
\* the previous one returned
RunProg(b, prog) ==
  IF prog = <<>> THEN Res(b.cls, b.query, b.ctx, FALSE, "")
  ELSE runRest(Call(b, Head(prog)), Tail(prog))

\* whereJoin once the callback has returned sub, result = sub.toQuery()
joinResult(b, key, sub) ==
  IF sub.err # "" THEN Throw(b, sub.err)
  ELSE Ok(b, setWhere([b EXCEPT !.query =
                         setProperty(Join(<<K("relations"), key>>),
                                     Coalesce(GetKey(sub.query, K("relations")), True),
                                     b.query)],
                      key, GetKey(sub.query, K("where"))).query,
          TRUE)

whereJoin(b, key, queryBuilder) ==
  joinResult(b, key,
             RunProg([NewBuilder("Query") EXCEPT !.ctx.insideWhereJoin = TRUE], queryBuilder))

\* the results of branch i (sub) followed by those of the later branches
orCollect(b, queryBuilders, i, sub) ==
  IF sub.err # "" THEN [err |-> sub.err, s |-> <<>>]
  ELSE [err |-> OrResults(b, queryBuilders, i + 1).err,
        s |-> <<GetKey(sub.query, K("where"))>> \o OrResults(b, queryBuilders, i + 1).s]

\* orBranchBuilder without `query.query.where = this.query.where`
orBranchBuilderUnseeded(b, fresh) == [fresh EXCEPT !.ctx.insideWhereOr = TRUE]

\* the builder handed to a branch: a new Query (PaginatedQuery for a
\* PaginatedQuery) with query.where = this.query.where, insideWhereOr set
orBranchBuilder(b, fresh) ==
  [fresh EXCEPT !.query = Assign(fresh.query, K("where"), GetKey(b.query, K("where"))),
                !.ctx.insideWhereOr = TRUE]

\* queryBuilders.map(...): the where of each branch in order, or the first throw
OrResults(b, queryBuilders, i) ==
  IF i > Len(queryBuilders) THEN [err |-> "", s |-> <<>>]
  ELSE orCollect(b, queryBuilders, i,
                 RunProg(orBranchBuilder(b, NewBuilder(IF b.cls = "PaginatedQuery"
                                                       THEN "PaginatedQuery" ELSE "Query")),
                         queryBuilders[i]))

\* whereOr once the branches have returned results
orResult(b, results) ==
  IF results.err # "" THEN Throw(b, results.err)
  ELSE terminalFrom(b, Ok(b, setProperty(K("where"), Arr(SelectSeq(results.s, isDefined)),
                                         b.query), TRUE))

whereOr(b, queryBuilders) == orResult(b, OrResults(b, queryBuilders, 1))

\* ------------------------------------------------------ firestore-query.ts
\* The Firestore builders keep a FirebaseQuery object: queryRef, the query
\* reference, is the list of the constraints applied to the collection (a
\* reference is immutable, where/orderBy/select return a new one);
\* filteredProps is the set of filtered keys.  Inside whereOr the reference
\* of a branch is the class admin.firestore.Filter, whose static where makes
\* a filter; a filter has no where of its own.
FirestoreClasses == {"FirestoreQueryWithWhere", "FirestoreQuery", "FirestorePaginatedQuery"}

ERR_TEXT_SEARCH == "text search is not supported by firestore"
ERR_JOIN_NOT_IMPLEMENTED == "whereJoin: it is not implemented just yet!"
ERR_FETCH_NOT_IMPLEMENTED == "fetchRelation: Not implemented yet!"
ERR_FILTER_TWICE == "Query.filter() can only be called once!"
ERR_NO_WHERE_METHOD == "TypeError: queryRef.where is not a function"

Collection == Arr(<<>>)
FilterClass == Str(<<"admin.firestore.Filter">>)

FirestoreDefault ==
  Obj((K("queryRef") :> Collection) @@ (K("filteredProps") :> EmptyObj)
        @@ (K("cache") :> Num(DEFAULT_CACHE_TIME)))

\* new FirestoreQueryWithWhere({ collection: admin.firestore.Filter })
FilterDefault == Assign(FirestoreDefault, K("queryRef"), FilterClass)

Constraint(key, op, value) == Arr(<<Str(key), Str(<<op>>), value>>)

\* queryRef.where(...), queryRef.orderBy(...), queryRef.select(...)
refWith(queryRef, constraint) ==
  IF queryRef.t = "arr" THEN Returned(Arr(Append(queryRef.s, constraint)))
  ELSE IF queryRef = FilterClass THEN Returned(Obj(K("filter") :> constraint))
  ELSE Thrown(ERR_NO_WHERE_METHOD)

\* this.query.queryRef = ref; this.query.filteredProps.add(key)
filtered(b, ref, key) ==
  IF ref.err # "" THEN Throw(b, ref.err)
  ELSE Ok(b, Assign(Assign(b.query, K("queryRef"), ref.v), K("filteredProps"),
                    Assign(GetKey(b.query, K("filteredProps")), key, True)), FALSE)

\* if (value === undefined) return this; ...where(key, op, value)
Firestore_where(b, key, op, value) ==
  IF value = Undef THEN Ok(b, b.query, FALSE)
  ELSE filtered(b, refWith(GetKey(b.query, K("queryRef")), Constraint(key, op, value)), key)

\* the operator each comparison method passes to where
FirestoreOperator(m) ==
  CASE m = "whereEqualTo" -> "=="
    [] m = "whereNotEqualTo" -> "!="
    [] m \in {"whereMoreThan", "whereNotLessThanOrEqual"} -> ">"
    [] m \in {"whereNotMoreThan", "whereLessThanOrEqual"} -> "<="
    [] m \in {"whereMoreThanOrEqual", "whereNotLessThan"} -> ">="
    [] m \in {"whereNotMoreThanOrEqual", "whereLessThan"} -> "<"
    [] m = "whereIn" -> "in"
    [] m = "whereArrayContains" -> "array-contains"
    [] m = "whereArrayContainsAny" -> "array-contains-any"

\* queryRef.where(key, op1, v1).where(key, op2, v2)
twice(b, first, key, op, value) ==
  IF first.err # "" THEN Throw(b, first.err)
  ELSE filtered(b, refWith(first.v, Constraint(key, op, value)), key)

Firestore_whereBetween(b, key, from, to) ==
  IF from = Undef \/ to = Undef THEN Ok(b, b.query, FALSE)
  ELSE twice(b, refWith(GetKey(b.query, K("queryRef")), Constraint(key, ">=", from)),
             key, "<=", to)

\* value + ''
UpTo(value) == IF value.t = "str" THEN Str(Append(value.s, "\\uf8ff")) ELSE value

Firestore_whereTextStartsWith(b, key, value) ==
  IF ~isDefined(value) THEN Ok(b, b.query, FALSE)
  ELSE twice(b, refWith(GetKey(b.query, K("queryRef")), Constraint(key, ">=", value)),
             key, "<=", UpTo(value))

\* a text operator that is left out of the query without an error
Firestore_whereTextIgnored(b, m, key, value) == Ok(b, b.query, FALSE)

\* whereTextContains, whereTextEndsWith, whereTextInAnyCaseContains,
\* whereTextInAnyCaseStartsWith, whereTextInAnyCaseEndsWith
Firestore_whereText(b, m, key, value) == Throw(b, ERR_TEXT_SEARCH)

Firestore_whereIsNull(b, key) ==
  filtered(b, refWith(GetKey(b.query, K("queryRef")), Constraint(key, "==", Null)), key)

Firestore_whereIsNotNull(b, key) ==
  filtered(b, refWith(GetKey(b.query, K("queryRef")), Constraint(key, "!=", Null)), key)

Firestore_whereJoin(b, key, queryBuilder) == Throw(b, ERR_JOIN_NOT_IMPLEMENTED)

RECURSIVE Firestore_filters(_, _)
\* queryBuilders.map(queryBuilder => queryBuilder(query).toQuery().queryRef)
\* over a new builder on admin.firestore.Filter; the first throw ends the map
Firestore_filters(queryBuilders, i) ==
  IF i > Len(queryBuilders) THEN [err |-> "", s |-> <<>>]
  ELSE LET r == RunProg([cls |-> "FirestoreQueryWithWhere", query |-> FilterDefault,
                         ctx |-> QueryContext(FALSE, FALSE)], queryBuilders[i])
           rest == Firestore_filters(queryBuilders, i + 1)
       IN IF r.err # "" THEN [err |-> r.err, s |-> <<>>]
          ELSE IF rest.err # "" THEN rest
          ELSE [err |-> "", s |-> <<GetKey(r.query, K("queryRef"))>> \o rest.s]

\* this.query.queryRef = this.query.queryRef.where(admin.firestore.Filter.or(...filters))
Firestore_orResult(b, filters, ref) ==
  IF filters.err # "" THEN Throw(b, filters.err)
  ELSE IF ref.err # "" THEN Throw(b, ref.err)
  ELSE Ok(b, Assign(b.query, K("queryRef"), ref.v), FALSE)

Firestore_whereOr(b, queryBuilders) ==
  Firestore_orResult(b, Firestore_filters(queryBuilders, 1),
                     refWith(GetKey(b.query, K("queryRef")),
                             Obj(K("or") :> Arr(Firestore_filters(queryBuilders, 1).s))))

\* queryRef.orderBy(key, direction); orderByMap.set(key, direction)
Firestore_ordered(b, ref, key, direction) ==
  IF ref.err # "" THEN Throw(b, ref.err)
  ELSE Ok(b, Assign(Assign(b.query, K("queryRef"), ref.v), K("orderByMap"),
                    Assign(Coalesce(GetKey(b.query, K("orderByMap")), EmptyObj), key,
                           Str(<<direction>>))), FALSE)

Firestore_orderBy(b, key, direction) ==
  Firestore_ordered(b, refWith(GetKey(b.query, K("queryRef")),
                               Arr(<<Str(<<"orderBy">>), Str(key), Str(<<direction>>)>>)),
                    key, direction)

Firestore_selected(b, ref) ==
  IF ref.err # "" THEN Throw(b, ref.err)
  ELSE Ok(b, Assign(b.query, K("queryRef"), ref.v), FALSE)

Firestore_select(b, key) ==
  Firestore_selected(b, refWith(GetKey(b.query, K("queryRef")),
                                Arr(<<Str(<<"select">>), key>>)))

Firestore_fetchRelation(b, ks) == Throw(b, ERR_FETCH_NOT_IMPLEMENTED)

\* cache(cache = DEFAULT_CACHE_TIME)
Firestore_cache(b, value) ==
  Ok(b, Assign(b.query, K("cache"),
               IF value = Undef THEN Num(DEFAULT_CACHE_TIME) ELSE value), FALSE)

Firestore_next(b, token) == Ok(b, Assign(b.query, K("next"), token), FALSE)

Firestore_limit(b, value) == Ok(b, Assign(b.query, K("limit"), value), FALSE)

\* this.next(pagination?.next).limit(pagination?.limit)
Firestore_pagination(b, input) ==
  IF ~IsTruthy(input) THEN Ok(b, b.query, FALSE)
  ELSE Ok(b, Assign(Assign(b.query, K("next"), GetKey(input, K("next"))), K("limit"),
                    GetKey(input, K("limit"))), FALSE)

Firestore_filter(b, predicate) ==
  IF IsTruthy(GetKey(b.query, K("filterFunction"))) THEN Throw(b, ERR_FILTER_TWICE)
  ELSE Ok(b, Assign(b.query, K("filterFunction"), predicate), FALSE)

UnsupportedText ==
  {"whereTextContains", "whereTextEndsWith", "whereTextInAnyCaseContains",
   "whereTextInAnyCaseStartsWith", "whereTextInAnyCaseEndsWith"}

\* the body of method d.m of a Firestore builder
FirestoreMethod(b, d) ==
  CASE d.m \in UnsupportedText -> Firestore_whereText(b, d.m, d.p, d.v)
    [] d.m = "whereTextStartsWith" -> Firestore_whereTextStartsWith(b, d.p, d.v)
    [] d.m = "whereBetween" -> Firestore_whereBetween(b, d.p, d.v, d.w)
    [] d.m = "whereIsNull" -> Firestore_whereIsNull(b, d.p)
    [] d.m = "whereIsNotNull" -> Firestore_whereIsNotNull(b, d.p)
    [] d.m = "whereJoin" -> Firestore_whereJoin(b, d.p, d.subs[1])
    [] d.m = "whereOr" -> Firestore_whereOr(b, d.subs)
    [] d.m = "orderByAscending" -> Firestore_orderBy(b, d.p, "asc")
    [] d.m = "orderByDescending" -> Firestore_orderBy(b, d.p, "desc")
    [] d.m = "select" -> Firestore_select(b, d.v)
    [] d.m = "fetchRelation" -> Firestore_fetchRelation(b, d.ks)
    [] d.m = "cache" -> Firestore_cache(b, d.v)
    [] d.m = "next" -> Firestore_next(b, d.v)
    [] d.m = "limit" -> Firestore_limit(b, d.v)
    [] d.m = "pagination" -> Firestore_pagination(b, d.v)
    [] d.m = "filter" -> Firestore_filter(b, d.v)
    [] d.m \in {"toQuery", "toOrderByMap"} -> Ok(b, b.query, FALSE)
    [] OTHER -> Firestore_where(b, d.p, FirestoreOperator(d.m), d.v)

\* the body of method d.m with the arguments of directive d
\* toQuery that fills in the offset before returning the query
toQueryWithSkip(b) ==
  Ok(b, Assign(b.query, K("skip"), Coalesce(GetKey(b.query, K("skip")), Zero)), FALSE)

\* toQuery() { return this.query }
QueryWithWhere_toQuery(b) == Ok(b, b.query, FALSE)

Method(b, d) ==
  CASE b.cls \in FirestoreClasses -> FirestoreMethod(b, d)
    [] d.m = "whereEqualTo" -> whereEqualTo(b, d.p, d.v)
    [] d.m = "whereNotEqualTo" -> whereNotEqualTo(b, d.p, d.v)
    [] d.m = "whereIsNull" -> whereIsNull(b, d.p)
    [] d.m = "whereIsNotNull" -> whereIsNotNull(b, d.p)
    [] d.m = "whereIn" -> whereIn(b, d.p, d.v)
    [] d.m \in {"whereArrayContains", "whereArrayContainsAny"} ->
         whereArray(b, d.m, d.p, d.v)
    [] d.m = "whereJoin" -> whereJoin(b, d.p, d.subs[1])
    [] d.m = "whereOr" -> whereOr(b, d.subs)
    [] d.m = "orderByAscending" -> orderBy(b, d.p, "ASC")
    [] d.m = "orderByDescending" -> orderBy(b, d.p, "DESC")
    [] d.m = "select" -> select(b, d.v)
    [] d.m = "fetchRelation" -> fetchRelation(b, d.ks)
    [] d.m = "loadRelationIds" -> loadRelationIds(b, d.v)
    [] d.m = "cache" -> cache(b, d.v)
    [] d.m = "limit" -> limit(b, d.v)
    [] d.m = "next" -> next(b, d.v)
    [] d.m = "pagination" -> pagination(b, d.v)
    [] d.m = "toQuery" -> Ok(b, b.query, FALSE)
    [] OTHER -> whereCompare(b, d.m, d.p, d.v, d.w)

\* b.m(...): r is the method's result when the class of b has method m
Dispatch(b, m, r) == IF m \notin MethodsOf(b.cls) THEN Throw(b, ERR_NOT_A_METHOD) ELSE r

\* a call made inside a callback
Call(b, d) == Dispatch(b, d.m, Method(b, d))

\* ------------------------------------------------------- the typeorm store
\* The table behind `this.repository`: a sequence of rows in storage order.
\* A row is an object with the columns id, x and deletedAt.
ID == <<"id">>
DELETED_AT == <<"deletedAt">>

Row(id, x) == Obj((ID :> Num(id)) @@ (K("x") :> Num(x)) @@ (DELETED_AT :> Null))

RECURSIVE satisfies(_, _)
\* the column value v against the condition stored at its key of a where tree
satisfies(v, cond) ==
  IF cond.t = "op"
  THEN CASE cond.k = "in" ->
              cond.v.t = "arr" /\ \E i \in 1..Len(cond.v.s) : cond.v.s[i] = v
         [] cond.k = "isNull" -> ~isDefined(v)
         [] cond.k = "not" -> ~satisfies(v, cond.v)
         [] cond.k = "moreThan" -> v.t = "num" /\ cond.v.t = "num" /\ v.n > cond.v.n
         [] cond.k = "lessThan" -> v.t = "num" /\ cond.v.t = "num" /\ v.n < cond.v.n
         [] OTHER -> FALSE
  ELSE IF cond.t = "obj"
  THEN \A key \in DOMAIN cond.f : satisfies(GetKey(v, key), cond.f[key])
  ELSE v = cond

\* WHERE of a statement: no where, or a list with no alternative, restricts
\* nothing; a list matches when one alternative does.
matchesWhere(row, where) ==
  IF ~isDefined(where) THEN TRUE
  ELSE IF where.t = "arr"
  THEN where.s = <<>> \/ \E i \in 1..Len(where.s) : satisfies(row, where.s[i])
  ELSE satisfies(row, where)

\* the rows a statement with this where acts on
Matching(rows, where) == SelectSeq(rows, LAMBDA row : matchesWhere(row, where))

\* row a is placed before row b under `order`; find appends the id key last
Before(a, b, order) ==
  LET x == GetKey(order, K("x"))
      id == GetKey(order, ID)
      ax == GetKey(a, K("x")).n
      bx == GetKey(b, K("x")).n
      ai == GetKey(a, ID).n
      bi == GetKey(b, ID).n
  IN IF isDefined(x) /\ ax # bx
     THEN (IF x = Str(<<"ASC">>) THEN ax < bx ELSE ax > bx)
     ELSE isDefined(id) /\ (IF id = Str(<<"ASC">>) THEN ai < bi ELSE ai > bi)

RECURSIVE Sorted(_, _)
\* ORDER BY: a stable sort, rows that the order does not separate keep their
\* storage order
Sorted(rows, order) ==
  IF rows = <<>> THEN <<>>
  ELSE LET first == CHOOSE i \in 1..Len(rows) :
                      /\ \A j \in 1..Len(rows) : ~Before(rows[j], rows[i], order)
                      /\ \A j \in 1..(i - 1) : Before(rows[j], rows[i], order)
                                                 \/ Before(rows[i], rows[j], order)
       IN <<rows[first]>> \o
          Sorted(SubSeq(rows, 1, first - 1) \o SubSeq(rows, first + 1, Len(rows)), order)

\* OFFSET skip LIMIT take; a falsy take sets no limit
Window(rows, skip, take) ==
  LET from == IF skip.t = "num" THEN skip.n ELSE 0
      to == IF take.t = "num" /\ take.n # 0 /\ from + take.n < Len(rows)
            THEN from + take.n ELSE Len(rows)
  IN SubSeq(rows, from + 1, to)

NotDeleted(rows) == SelectSeq(rows, LAMBDA row : GetKey(row, DELETED_AT) = Null)

\* this.repository.find(options)
storeFind(rows, options) ==
  Window(Sorted(Matching(NotDeleted(rows), GetKey(options, K("where"))),
                Coalesce(GetKey(options, K("order")), EmptyObj)),
         GetKey(options, K("skip")), GetKey(options, K("take")))

\* this.repository.update(where, entity)
storeUpdate(rows, where, entity) ==
  [i \in 1..Len(rows) |->
     IF GetKey(rows[i], DELETED_AT) = Null /\ matchesWhere(rows[i], where)
     THEN Obj(OwnFields(entity) @@ OwnFields(rows[i])) ELSE rows[i]]

\* this.repository.delete(where)
storeDelete(rows, where) == SelectSeq(rows, LAMBDA row : ~matchesWhere(row, where))

\* this.repository.softDelete(where)
storeSoftDelete(rows, where) ==
  [i \in 1..Len(rows) |->
     IF GetKey(rows[i], DELETED_AT) = Null /\ matchesWhere(rows[i], where)
     THEN Assign(rows[i], DELETED_AT, Num(1)) ELSE rows[i]]

\* this.repository.restore(where)
storeRestore(rows, where) ==
  [i \in 1..Len(rows) |->
     IF matchesWhere(rows[i], where) THEN Assign(rows[i], DELETED_AT, Null) ELSE rows[i]]

\* this.repository.increment(where, key, incrementBy)
storeIncrement(rows, where, key, incrementBy) ==
  [i \in 1..Len(rows) |->
     IF GetKey(rows[i], DELETED_AT) = Null /\ matchesWhere(rows[i], where)
     THEN Assign(rows[i], key, Num(GetKey(rows[i], key).n + incrementBy)) ELSE rows[i]]

\* one call that reached the store
StoreCall(op, where) == [op |-> op, where |-> where]

\* ------------------------------------------------------------ repository.ts
MAX_REPEAT_COUNT == 5

ERR_NO_WHERE == "Invalid query: no WHERE condition!"

\* Object.keys(query.toQuery().order ?? {}).length
HasOrder(query) == DOMAIN OwnFields(Coalesce(GetKey(query, K("order")), EmptyObj)) # {}

\* if (...) query = query.orderByAscending('id')
withIdOrder(b) == IF HasOrder(b.query) THEN orderBy(b, ID, "ASC") ELSE Ok(b, b.query, FALSE)

\* items.length < options.take, for a truthy take
Short(items, take) == IsTruthy(take) /\ take.t = "num" /\ Len(items) < take.n

\* (options.skip ?? 0) + (options.take ?? 0)
Advance(skip, take) == Num(Coalesce(skip, Zero).n + Coalesce(take, Zero).n)

\* the token find returns with a page that restarts at the same offset
nextOfSameSkip(options, items) ==
  IF Len(items) = 0 \/ Short(items, GetKey(options, K("take"))) THEN Null
  ELSE toPaginationToken(Coalesce(GetKey(options, K("skip")), Zero),
                         Coalesce(GetKey(options, K("take")), Num(DEFAULT_PAGE_SIZE)))

\* the token find returns with a page
nextOf(options, items) ==
  IF Len(items) = 0 \/ Short(items, GetKey(options, K("take"))) THEN Null
  ELSE toPaginationToken(Advance(GetKey(options, K("skip")), GetKey(options, K("take"))),
                         Coalesce(GetKey(options, K("take")), Num(DEFAULT_PAGE_SIZE)))

\* { next, items } of find, with the options that reached the store
Page(options, items) == [items |-> items, next |-> nextOf(options, items), options |-> options]

\* Repository.find(query) for a query object
find(rows, b) == Page(withIdOrder(b).query, storeFind(rows, withIdOrder(b).query))

\* what paginate resolves to: the items of every page, the calls that reached
\* the store, and the query object as the last next() left it
Fetched(err, items, calls, query) ==
  [err |-> err, items |-> items, calls |-> calls, query |-> query]

RECURSIVE paginate(_, _, _, _, _, _)

\* the end of one turn of the do/while: count the repeated token, go on
\* while (nextToken && repeatCounter > 0)
paginateTurn(rows, b, repeatCounter, result, calls, page) ==
  IF IsTruthy(page.next) /\ repeatCounter > 0
  THEN paginate(rows, b, page.next, repeatCounter, result \o page.items,
                Append(calls, StoreCall("find", GetKey(page.options, K("where")))))
  ELSE Fetched("", result \o page.items,
               Append(calls, StoreCall("find", GetKey(page.options, K("where")))), b.query)

\* const { items, next } = await fetchNext(nextToken), after next(nextToken)
\* returned r on the shared query object
paginateFetch(rows, b, nextToken, repeatCounter, result, calls, r, page) ==
  IF r.err # "" THEN Fetched(r.err, result, calls, b.query)
  ELSE paginateTurn(rows, [b EXCEPT !.query = r.query],
                    IF nextToken = page.next THEN repeatCounter - 1 ELSE MAX_REPEAT_COUNT,
                    result, calls, page)

\* paginate(next => this.find(PaginatedQuery.from(query).next(next))): b is
\* the builder over the query object that from() shares with the caller
paginate(rows, b, nextToken, repeatCounter, result, calls) ==
  paginateFetch(rows, b, nextToken, repeatCounter, result, calls, next(b, nextToken),
                find(rows, [b EXCEPT !.query = next(b, nextToken).query]))

\* what toFindOptionsWhere resolves to (where undefined: nothing to act on)
\* or rejects with
Criteria(err, where, calls, query) ==
  [err |-> err, where |-> where, calls |-> calls, query |-> query]

\* new QueryWithWhere(this).whereIn('id', ids) / .whereEqualTo('id', id)
whereOfId(queryOrId) ==
  IF queryOrId.t = "arr"
  THEN GetKey(whereIn(NewBuilder("QueryWithWhere"), ID, queryOrId).query, K("where"))
  ELSE GetKey(whereEqualTo(NewBuilder("QueryWithWhere"), ID, queryOrId).query, K("where"))

\* items.map(i => i.id)
IdsOf(items) == Arr([i \in 1..Len(items) |-> GetKey(items[i], ID)])

\* the list case: the ids of the rows the list selects
whereOfFetched(fetched) ==
  IF fetched.err # "" THEN Criteria(fetched.err, Undef, fetched.calls, fetched.query)
  ELSE IF Len(fetched.items) = 0 THEN Criteria("", Undef, fetched.calls, fetched.query)
  ELSE Criteria("", whereOfId(IdsOf(fetched.items)), fetched.calls, fetched.query)

\* toFindOptionsWhere for a query object, where = queryOrId.toQuery().where
whereOfQuery(rows, b, where) ==
  IF ~IsTruthy(where) THEN Criteria(ERR_NO_WHERE, Undef, <<>>, b.query)
  ELSE IF where.t = "arr"
  THEN whereOfFetched(paginate(rows, [b EXCEPT !.cls = "PaginatedQuery"], Undef,
                               MAX_REPEAT_COUNT, <<>>, <<>>))
  ELSE Criteria("", where, <<>>, b.query)

\* toFindOptionsWhere for an id or a list of ids
whereOfValue(where) ==
  IF ~IsTruthy(where) THEN Criteria(ERR_NO_WHERE, Undef, <<>>, Undef)
  ELSE Criteria("", where, <<>>, Undef)

\* queryOrCallback(new Query(this)) returned or threw r
whereOfCallback(rows, r) ==
  IF r.err # "" THEN Criteria(r.err, Undef, <<>>, Undef)
  ELSE whereOfQuery(rows, [cls |-> r.cls, query |-> r.query, ctx |-> r.ctx],
                    GetKey(r.query, K("where")))

\* An IdsOrQuery argument: an id or a list of ids (v), a query the caller
\* holds (h), or a callback (prog).
IdInput(v) == [kind |-> "id", v |-> v, h |-> 0, prog |-> <<>>]
QueryInput(h) == [kind |-> "query", v |-> Undef, h |-> h, prog |-> <<>>]
CallbackInput(prog) == [kind |-> "callback", v |-> Undef, h |-> 0, prog |-> prog]

\* ------------------------------------------------------------------- state
\* builders: the handles the caller holds, [cls, ref, ctx, term]; ref is the
\*           query object the handle's this.query points to, term records
\*           that whereIn/whereOr has executed on the IR the handle is over.
\* heap:     the query objects, by reference.
\* hist:     per handle, the directives that completed on it.
\* last:     the latest call: directive d, receiver h, query before (pre),
\*           error thrown (err), handle returned (ret).
\* plan:     the directives a two-builder comparison applies in both orders.
\* steps:    number of calls made.
\* rows:     the table of the store.
\* calls:    the calls that reached the store during the latest repository
\*           call, in order.
\* result:   the latest repository call: method (op), argument (arg), query
\*           handle passed (h, 0 for none), error rejected with (err), items and next
\*           token resolved to; seen collects the items of the pages
\*           fetched by following next from the offset `from`.
VARIABLES builders, heap, hist, last, plan, steps, rows, calls, result

vars == <<builders, heap, hist, last, plan, steps, rows, calls, result>>

NoResult ==
  [op |-> "none", arg |-> IdInput(Undef), h |-> 0, err |-> "", items |-> <<>>, next |-> Null,
   from |-> Undef, seen |-> <<>>]

NoDir == Dir("new", <<>>, Undef, Undef, <<>>, <<>>)

Handle(cls, ref) ==
  [cls |-> cls, ref |-> ref, ctx |-> QueryContext(FALSE, FALSE), term |-> FALSE]

\* the builder value a handle denotes
Deref(h) == [cls |-> builders[h].cls, query |-> heap[builders[h].ref], ctx |-> builders[h].ctx]

\* h.toQuery()
toQuery(h) == heap[builders[h].ref]

Where(h) == GetKey(toQuery(h), K("where"))
Relations(h) == GetKey(toQuery(h), K("relations"))

IsTerminalOp(m) == m \in {"whereIn", "whereOr"}

\* The bookkeeping of one call h.m(...) by the caller, r the result of the
\* method on the builder h denotes: a call that reassigns this.query
\* allocates a new object, a call that writes this.query.field changes the
\* object every handle over it sees, and whereIn/whereOr return a new handle
\* over the receiver's object.
RecordQuery(h, d, r, ref) ==
  /\ steps' = steps + 1
  /\ plan' = plan
  /\ IF r.err # ""
     THEN /\ UNCHANGED <<builders, heap, hist>>
          /\ last' = [d |-> d, h |-> h, pre |-> toQuery(h), err |-> r.err, ret |-> 0]
     ELSE /\ heap' = IF r.fresh THEN Append(heap, r.query)
                     ELSE [heap EXCEPT ![ref] = r.query]
          /\ builders' =
               IF r.cls # builders[h].cls
               THEN Append([builders EXCEPT ![h].ref = ref, ![h].term = TRUE],
                           [cls |-> r.cls, ref |-> ref, ctx |-> r.ctx, term |-> TRUE])
               ELSE [builders EXCEPT ![h].ref = ref]
          /\ hist' =
               IF r.cls # builders[h].cls
               THEN Append([hist EXCEPT ![h] = Append(@, d)], <<>>)
               ELSE [hist EXCEPT ![h] = Append(@, d)]
          /\ last' = [d |-> d, h |-> h, pre |-> toQuery(h), err |-> "",
                      ret |-> IF r.cls # builders[h].cls THEN Len(builders) + 1 ELSE h]

\* a call of a builder method leaves the store alone
Record(h, d, r, ref) == RecordQuery(h, d, r, ref) /\ UNCHANGED <<rows, calls, result>>

Step(h, d, r) ==
  Record(h, d, Dispatch(Deref(h), d.m, r),
         IF Dispatch(Deref(h), d.m, r).fresh THEN Len(heap) + 1 ELSE builders[h].ref)

\* Cls.from(h): a new handle of class cls sharing h's query object
FromStatic(cls, h) ==
  /\ steps' = steps + 1
  /\ builders' = Append(builders, [Handle(cls, builders[h].ref) EXCEPT
                                     !.term = builders[h].term])
  /\ hist' = Append(hist, <<>>)
  /\ last' = [d |-> Dir("from", <<cls>>, Undef, Undef, <<>>, <<>>), h |-> h,
              pre |-> toQuery(h), err |-> "", ret |-> Len(builders) + 1]
  /\ UNCHANGED <<heap, plan, rows, calls, result>>

\* ------------------------------------------------------------------ inputs
X == <<"x">>
Y == <<"y">>
A_B == <<"a", Dot, "b">>
A_D == <<"a", Dot, "d">>
A_B_C == <<"a", Dot, "b", Dot, "c">>
A_B_C_D == <<"a", Dot, "b", Dot, "c", Dot, "d">>
R == <<"r">>

D1(m, p, v) == Dir(m, p, v, Undef, <<>>, <<>>)

Handles == 1..Len(builders)

\* one segment list leads into the other
IsPrefix(s, u) == Len(s) <= Len(u) /\ SubSeq(u, 1, Len(s)) = s
Overlap(s, u) == IsPrefix(s, u) \/ IsPrefix(u, s)

\* ---------------------------------------------------------------- actions
WhereEqualTo(h, path, value) ==
  Step(h, D1("whereEqualTo", path, value), whereEqualTo(Deref(h), path, value))
WhereNotEqualTo(h, path, value) ==
  Step(h, D1("whereNotEqualTo", path, value), whereNotEqualTo(Deref(h), path, value))
WhereMoreThan(h, path, value) ==
  Step(h, D1("whereMoreThan", path, value),
       whereCompare(Deref(h), "whereMoreThan", path, value, Undef))
WhereLessThan(h, path, value) ==
  Step(h, D1("whereLessThan", path, value),
       whereCompare(Deref(h), "whereLessThan", path, value, Undef))
WhereIsNull(h, path) == Step(h, D1("whereIsNull", path, Undef), whereIsNull(Deref(h), path))
WhereIn(h, path, value) == Step(h, D1("whereIn", path, value), whereIn(Deref(h), path, value))
WhereJoin(h, key, queryBuilder) ==
  Step(h, Dir("whereJoin", key, Undef, Undef, <<>>, <<queryBuilder>>),
       whereJoin(Deref(h), key, queryBuilder))
WhereOr(h, queryBuilders) ==
  Step(h, Dir("whereOr", <<>>, Undef, Undef, <<>>, queryBuilders),
       whereOr(Deref(h), queryBuilders))
\* the where* methods not given an action of their own above
WhereOther(h, m, path, value) ==
  Step(h, Dir(m, path, value, value, <<>>, <<>>),
       IF m = "whereIsNotNull" THEN whereIsNotNull(Deref(h), path)
       ELSE IF m \in {"whereArrayContains", "whereArrayContainsAny"}
       THEN whereArray(Deref(h), m, path, value)
       ELSE whereCompare(Deref(h), m, path, value, value))
OrderByAscending(h, key) ==
  Step(h, D1("orderByAscending", key, Undef), orderBy(Deref(h), key, "ASC"))
OrderByDescending(h, key) ==
  Step(h, D1("orderByDescending", key, Undef), orderBy(Deref(h), key, "DESC"))
Select(h, key) == Step(h, D1("select", <<>>, Str(key)), select(Deref(h), Str(key)))
FetchRelation(h, ks) ==
  Step(h, Dir("fetchRelation", <<>>, Undef, Undef, ks, <<>>), fetchRelation(Deref(h), ks))
LoadRelationIds(h) ==
  Step(h, D1("loadRelationIds", <<>>, True), loadRelationIds(Deref(h), True))
Cache(h, value) == Step(h, D1("cache", <<>>, value), cache(Deref(h), value))
Limit(h, value) == Step(h, D1("limit", <<>>, value), limit(Deref(h), value))
NextPage(h, token) == Step(h, D1("next", <<>>, token), next(Deref(h), token))
Pagination(h, input) ==
  Step(h, D1("pagination", <<>>, input), pagination(Deref(h), input))
ToQuery(h) == Step(h, D1("toQuery", <<>>, Undef), QueryWithWhere_toQuery(Deref(h)))

\* toFindOptionsWhere(queryOrCallback)
toFindOptionsWhere(input) ==
  CASE input.kind = "query" -> whereOfQuery(rows, Deref(input.h), Where(input.h))
    [] input.kind = "callback" ->
         whereOfCallback(rows, RunProg(NewBuilder("Query"), input.prog))
    [] OTHER -> whereOfValue(whereOfId(input.v))

\* Repository.find(h), the bookkeeping: find reassigns the query of the
\* builder it was given when that query has an order; the page joins the
\* pages seen when the caller got here by following next.
FindPage(h, r, page) ==
  /\ RecordQuery(h, D1("find", <<>>, Undef), r,
                 IF r.fresh THEN Len(heap) + 1 ELSE builders[h].ref)
  /\ calls' = <<StoreCall("find", GetKey(page.options, K("where")))>>
  /\ result' = [op |-> "find", arg |-> QueryInput(h), h |-> h, err |-> "", items |-> page.items,
                next |-> page.next,
                from |-> IF result.op = "next" /\ result.h = h THEN result.from
                         ELSE GetKey(page.options, K("skip")),
                seen |-> (IF result.op = "next" /\ result.h = h THEN result.seen
                          ELSE <<>>) \o page.items]
  /\ rows' = rows

Find(h) == FindPage(h, withIdOrder(Deref(h)), find(rows, Deref(h)))

\* h.next(page.next) with the token the latest find on h returned
FollowNext(h) ==
  /\ result.op = "find"
  /\ result.h = h
  /\ result.next # Null
  /\ RecordQuery(h, D1("next", <<>>, result.next), next(Deref(h), result.next),
                 builders[h].ref)
  /\ result' = [result EXCEPT !.op = "next"]
  /\ UNCHANGED <<rows, calls>>

\* The bookkeeping of updateMany, delete, restore and increment: w is what
\* toFindOptionsWhere resolved to, ops the store calls the method makes with
\* w.where, after the table once they ran, items what the method returns.
Settle(op, input, w, ops, after, items) ==
  /\ steps' = steps + 1
  /\ heap' = IF input.kind = "query"
             THEN [heap EXCEPT ![builders[input.h].ref] = w.query] ELSE heap
  /\ UNCHANGED <<builders, hist, last, plan>>
  /\ IF w.err # "" \/ ~IsTruthy(w.where)
     THEN /\ rows' = rows
          /\ calls' = w.calls
          /\ result' = [NoResult EXCEPT !.op = op, !.arg = input, !.h = input.h, !.err = w.err]
     ELSE /\ rows' = after
          /\ calls' = w.calls \o [i \in 1..Len(ops) |-> StoreCall(ops[i], w.where)]
          /\ result' = [NoResult EXCEPT !.op = op, !.arg = input, !.h = input.h, !.items = items]

\* this.repository.find({ where })
findWhere(table, where) == storeFind(table, Obj(K("where") :> where))

UpdateMany(input, entity) ==
  Settle("updateMany", input, toFindOptionsWhere(input), <<"update", "find">>,
         storeUpdate(rows, toFindOptionsWhere(input).where, entity),
         findWhere(storeUpdate(rows, toFindOptionsWhere(input).where, entity),
                   toFindOptionsWhere(input).where))

Delete(input, softDelete) ==
  Settle("delete", input, toFindOptionsWhere(input),
         <<"find", IF softDelete THEN "softDelete" ELSE "delete">>,
         IF softDelete THEN storeSoftDelete(rows, toFindOptionsWhere(input).where)
         ELSE storeDelete(rows, toFindOptionsWhere(input).where),
         findWhere(rows, toFindOptionsWhere(input).where))

Restore(input) ==
  Settle("restore", input, toFindOptionsWhere(input), <<"restore", "find">>,
         storeRestore(rows, toFindOptionsWhere(input).where),
         findWhere(storeRestore(rows, toFindOptionsWhere(input).where),
                   toFindOptionsWhere(input).where))

Increment(input, key, incrementBy) ==
  Settle("increment", input, toFindOptionsWhere(input), <<"increment", "find">>,
         storeIncrement(rows, toFindOptionsWhere(input).where, key, incrementBy),
         findWhere(storeIncrement(rows, toFindOptionsWhere(input).where, key, incrementBy),
                   toFindOptionsWhere(input).where))

\* the Firestore builders, one action per method
FirestoreWhere(h, m, key, value) ==
  Step(h, D1(m, key, value), Firestore_where(Deref(h), key, FirestoreOperator(m), value))
FirestoreWhereBetween(h, key, from, to) ==
  Step(h, Dir("whereBetween", key, from, to, <<>>, <<>>),
       Firestore_whereBetween(Deref(h), key, from, to))
FirestoreWhereTextStartsWith(h, key, value) ==
  Step(h, D1("whereTextStartsWith", key, value),
       Firestore_whereTextStartsWith(Deref(h), key, value))
FirestoreWhereText(h, m, key, value) ==
  Step(h, D1(m, key, value), Firestore_whereText(Deref(h), m, key, value))
FirestoreWhereIsNull(h, key) ==
  Step(h, D1("whereIsNull", key, Undef), Firestore_whereIsNull(Deref(h), key))
FirestoreWhereIsNotNull(h, key) ==
  Step(h, D1("whereIsNotNull", key, Undef), Firestore_whereIsNotNull(Deref(h), key))
FirestoreWhereJoin(h, key, queryBuilder) ==
  Step(h, Dir("whereJoin", key, Undef, Undef, <<>>, <<queryBuilder>>),
       Firestore_whereJoin(Deref(h), key, queryBuilder))
FirestoreWhereOr(h, queryBuilders) ==
  Step(h, Dir("whereOr", <<>>, Undef, Undef, <<>>, queryBuilders),
       Firestore_whereOr(Deref(h), queryBuilders))
FirestoreOrderByAscending(h, key) ==
  Step(h, D1("orderByAscending", key, Undef), Firestore_orderBy(Deref(h), key, "asc"))
FirestoreOrderByDescending(h, key) ==
  Step(h, D1("orderByDescending", key, Undef), Firestore_orderBy(Deref(h), key, "desc"))
FirestoreSelect(h, key) ==
  Step(h, D1("select", <<>>, Str(key)), Firestore_select(Deref(h), Str(key)))
FirestoreFetchRelation(h, ks) ==
  Step(h, Dir("fetchRelation", <<>>, Undef, Undef, ks, <<>>),
       Firestore_fetchRelation(Deref(h), ks))
FirestoreCache(h, value) ==
  Step(h, D1("cache", <<>>, value), Firestore_cache(Deref(h), value))
FirestoreNext(h, token) ==
  Step(h, D1("next", <<>>, token), Firestore_next(Deref(h), token))
FirestoreLimit(h, value) ==
  Step(h, D1("limit", <<>>, value), Firestore_limit(Deref(h), value))
FirestorePagination(h, input) ==
  Step(h, D1("pagination", <<>>, input), Firestore_pagination(Deref(h), input))
FirestoreFilter(h, predicate) ==
  Step(h, D1("filter", <<>>, predicate), Firestore_filter(Deref(h), predicate))

\* ------------------------------------------------------ specification Spec
\* A caller holding one builder makes up to MaxSteps calls on the handles it
\* has obtained so far.
Values == {Num(1), Num(0), Undef, Str(<<>>)}

OtherWhereMethods ==
  WhereMethods \ {"whereEqualTo", "whereNotEqualTo", "whereMoreThan", "whereLessThan",
                  "whereIsNull", "whereIn", "whereJoin", "whereOr"}

\* callbacks handed to whereJoin and whereOr, with whereIn at depth one and
\* two under both constructs
InnerIn == <<D1("whereIn", X, Arr(<<Num(1)>>))>>
InnerEq(v) == <<D1("whereEqualTo", Y, v)>>
JoinOf(prog) == <<Dir("whereJoin", R, Undef, Undef, <<>>, <<prog>>)>>
OrOf(prog) == <<Dir("whereOr", <<>>, Undef, Undef, <<>>, <<InnerEq(Num(1)), prog>>)>>

Callbacks ==
  {InnerEq(Num(1)), InnerEq(Num(2)), InnerIn, JoinOf(InnerIn), OrOf(InnerIn),
   JoinOf(OrOf(InnerIn)), OrOf(JoinOf(InnerIn)), <<D1("whereEqualTo", A_B, Num(3))>>}

Init ==
  /\ \E cls \in {"Query", "PaginatedQuery"} : builders = <<Handle(cls, 1)>>
  /\ heap = <<DefaultQuery>>
  /\ hist = <<(<<>>)>>
  /\ last = [d |-> NoDir, h |-> 1, pre |-> DefaultQuery, err |-> "", ret |-> 1]
  /\ plan = <<>>
  /\ steps = 0
  /\ rows = <<>>
  /\ calls = <<>>
  /\ result = NoResult

\* the caller has calls left
CanCall == steps < MaxSteps

Next ==
  \/ \E h \in Handles, path \in {X, A_B}, value \in Values :
       CanCall /\ WhereEqualTo(h, path, value)
  \/ \E h \in Handles, value \in {Num(1), Undef} : CanCall /\ WhereNotEqualTo(h, X, value)
  \/ \E h \in Handles, path \in {X, A_B} : CanCall /\ WhereMoreThan(h, path, Num(5))
  \/ \E h \in Handles, value \in {Num(10), Undef} : CanCall /\ WhereLessThan(h, X, value)
  \/ \E h \in Handles, path \in {X, A_B} : CanCall /\ WhereIsNull(h, path)
  \/ \E h \in Handles, path \in {X, A_B} :
       CanCall /\ WhereIn(h, path, Arr(<<Num(1), Num(2)>>))
  \/ \E h \in Handles, prog \in Callbacks : CanCall /\ WhereJoin(h, R, prog)
  \/ \E h \in Handles, b1 \in Callbacks : CanCall /\ WhereOr(h, <<b1, InnerEq(Num(2))>>)
  \/ \E h \in Handles, m \in OtherWhereMethods : CanCall /\ WhereOther(h, m, X, Num(1))
  \/ \E h \in Handles : CanCall /\ OrderByAscending(h, X)
  \/ \E h \in Handles : CanCall /\ OrderByDescending(h, Y)
  \/ \E h \in Handles : CanCall /\ Select(h, X)
  \/ \E h \in Handles : CanCall /\ FetchRelation(h, <<Str(R), Undef, Undef, Undef>>)
  \/ \E h \in Handles : CanCall /\ LoadRelationIds(h)
  \/ \E h \in Handles : CanCall /\ Cache(h, Bool(FALSE))
  \/ \E h \in Handles : CanCall /\ Limit(h, Num(5))
  \/ \E h \in Handles : CanCall /\ ToQuery(h)
  \/ \E h \in Handles, cls \in Classes : CanCall /\ FromStatic(cls, h)

Spec == Init /\ [][Next]_vars

\* ---------------------------------------------------- specification SpecOr
\* Up to MaxPrior predicate directives build a predicate, then whereOr
\* distributes it over its branches; further predicate directives may follow
\* on the builder while it has calls left.
MaxPrior == 2

Z == <<"z">>
Eq(p, v) == D1("whereEqualTo", p, v)
JoinDir(key, prog) == Dir("whereJoin", key, Undef, Undef, <<>>, <<prog>>)
OrDir(progs) == Dir("whereOr", <<>>, Undef, Undef, <<>>, progs)

PriorDirs ==
  {Eq(X, Num(1)), Eq(A_B, Num(7)), D1("whereMoreThan", X, Num(5)),
   D1("whereIsNull", Y, Undef), JoinDir(R, <<Eq(<<"k">>, Num(1))>>)}

Branches ==
  {<<>>, <<Eq(Y, Num(1))>>, <<Eq(Y, Num(2))>>, <<Eq(Y, Num(0))>>, <<Eq(X, Num(2))>>,
   <<Eq(A_D, Num(4))>>, <<D1("whereMoreThan", Y, Num(5)), Eq(A_B_C, Num(1))>>,
   <<JoinDir(<<"a">>, <<Eq(<<"c">>, Num(3))>>)>>,
   <<Eq(Y, Num(1)), OrDir(<<(<<Eq(Z, Num(1))>>), <<Eq(Z, Num(2))>> >>)>>}

\* the predicate is still being built / the OR has not been taken yet
Building == steps < MaxPrior
OrOpen(h) == steps < MaxPrior + 1 /\ ~builders[h].term

NextOr ==
  \/ \E h \in Handles, d \in PriorDirs :
       Building /\ d.m = "whereEqualTo" /\ WhereEqualTo(h, d.p, d.v)
  \/ \E h \in Handles, d \in PriorDirs :
       Building /\ d.m = "whereMoreThan" /\ WhereMoreThan(h, d.p, d.v)
  \/ \E h \in Handles, d \in PriorDirs :
       Building /\ d.m = "whereIsNull" /\ WhereIsNull(h, d.p)
  \/ \E h \in Handles, d \in PriorDirs :
       Building /\ d.m = "whereJoin" /\ WhereJoin(h, d.p, d.subs[1])
  \/ \E h \in Handles, b1, b2 \in Branches : OrOpen(h) /\ WhereOr(h, <<b1, b2>>)
  \/ \E h \in Handles, b3 \in Branches :
       OrOpen(h) /\ WhereOr(h, <<(<<Eq(Y, Num(1))>>), <<Eq(Y, Num(2))>>, b3>>)

SpecOr == Init /\ [][NextOr]_vars

\* -------------------------------------------------- specification SpecPath
\* One predicate directive on a nested path, made on a builder that is still
\* as constructed.  The array-contains methods take a direct field only.
NestedOverloads == OtherWhereMethods \ {"whereArrayContains", "whereArrayContainsAny"}

NestedPaths == {A_B, A_D, A_B_C, A_B_C_D}

LeafValues == {Num(1), Num(0), Undef, Null, Str(<<>>), Bool(FALSE)}

\* nothing has been called on the builder yet
Empty(h) == toQuery(h) = DefaultQuery

NextPath ==
  \/ \E h \in Handles, path \in NestedPaths, value \in LeafValues :
       Empty(h) /\ WhereEqualTo(h, path, value)
  \/ \E h \in Handles, path \in NestedPaths, value \in LeafValues :
       Empty(h) /\ WhereNotEqualTo(h, path, value)
  \/ \E h \in Handles, path \in NestedPaths, value \in {Num(5), Num(0), Undef} :
       Empty(h) /\ WhereMoreThan(h, path, value)
  \/ \E h \in Handles, path \in NestedPaths, value \in {Num(5), Num(0), Undef} :
       Empty(h) /\ WhereLessThan(h, path, value)
  \/ \E h \in Handles, path \in NestedPaths : Empty(h) /\ WhereIsNull(h, path)
  \/ \E h \in Handles, path \in NestedPaths, value \in {Arr(<<Num(1), Num(2)>>), Undef} :
       Empty(h) /\ WhereIn(h, path, value)
  \/ \E h \in Handles, m \in NestedOverloads, path \in NestedPaths,
        value \in {Num(1), Str(<<"Jo">>), Undef} :
       Empty(h) /\ WhereOther(h, m, path, value)

SpecPath == Init /\ [][NextPath]_vars

\* -------------------------------------------------- specification SpecPair
\* Two builders receive the same two whereEqualTo calls on non-overlapping
\* nested paths, builder 1 in the order of the plan and builder 2 in the
\* opposite order.
R_X == <<"r", Dot, "x">>

PairPaths == NestedPaths \cup {R_X}

PairValues == {Num(1), Num(2), Num(0), Undef}

Plans ==
  {<<Eq(p1, v1), Eq(p2, v2)>> :
     <<p1, p2>> \in {pp \in PairPaths \X PairPaths : ~Overlap(Split(pp[1]), Split(pp[2]))},
     <<v1, v2>> \in PairValues \X PairValues}

InitPair ==
  /\ plan \in Plans
  /\ builders = <<Handle("Query", 1), Handle("Query", 2)>>
  /\ heap = <<DefaultQuery, DefaultQuery>>
  /\ hist = <<(<<>>), <<>> >>
  /\ last = [d |-> NoDir, h |-> 1, pre |-> DefaultQuery, err |-> "", ret |-> 1]
  /\ steps = 0
  /\ rows = <<>>
  /\ calls = <<>>
  /\ result = NoResult

\* the next call of the plan that builder h has not made yet
Pending(h, d) == Len(hist[h]) < Len(plan) /\ d = plan[Len(hist[h]) + 1]
PendingBackwards(h, d) == Len(hist[h]) < Len(plan) /\ d = plan[Len(plan) - Len(hist[h])]

NextPair ==
  \/ \E d \in {plan[i] : i \in 1..Len(plan)} : Pending(1, d) /\ WhereEqualTo(1, d.p, d.v)
  \/ \E d \in {plan[i] : i \in 1..Len(plan)} :
       PendingBackwards(2, d) /\ WhereEqualTo(2, d.p, d.v)

SpecPair == InitPair /\ [][NextPair]_vars

\* --------------------------------------------------- specification SpecRel
\* Up to MaxRelCalls fetchRelation calls, each naming a chain of one to four
\* relations; the chains extend, shorten and branch off one another.
MaxRelCalls == 3

Chain(k1, k2, k3, k4) == <<k1, k2, k3, k4>>
Photos == Str(<<"photos">>)
Album == Str(<<"album">>)
User == Str(<<"user">>)

Chains ==
  {Chain(Photos, Undef, Undef, Undef), Chain(Photos, Album, Undef, Undef),
   Chain(Photos, Album, Photos, Undef), Chain(Photos, Album, Photos, User),
   Chain(Photos, User, Undef, Undef), Chain(Str(<<"followers">>), Undef, Undef, Undef)}

NextRel ==
  \E h \in Handles, ks \in Chains : steps < MaxRelCalls /\ FetchRelation(h, ks)

SpecRel == Init /\ [][NextRel]_vars

\* -------------------------------------------------- specification SpecJoin
\* Up to MaxJoinPrior directives declare relations and conditions under the
\* relation r and elsewhere (fetchRelation, nested paths, whereJoin), then
\* whereJoin is called on r.
MaxJoinPrior == 2

R_S_X == <<"r", Dot, "s", Dot, "x">>
S_Z == <<"s", Dot, "z">>
RelR == Str(R)
RelS == Str(<<"s">>)
RelQ == Str(<<"q">>)

JoinCallbacks ==
  {<<>>, <<Eq(Y, Num(1))>>, <<Eq(S_Z, Num(2))>>, <<Eq(Y, Num(0))>>,
   <<Eq(Y, Num(1)), JoinDir(<<"t">>, <<Eq(Z, Num(3))>>)>>}

JoinBuilding == steps < MaxJoinPrior

NextJoin ==
  \/ \E h \in Handles, path \in {X, R_X, R_S_X} :
       JoinBuilding /\ WhereEqualTo(h, path, Num(1))
  \/ \E h \in Handles, ks \in {Chain(RelR, RelS, Undef, Undef), Chain(RelQ, Undef, Undef, Undef)} :
       JoinBuilding /\ FetchRelation(h, ks)
  \/ \E h \in Handles, queryBuilder \in JoinCallbacks :
       steps < MaxJoinPrior + 1 /\ WhereJoin(h, R, queryBuilder)

SpecJoin == Init /\ [][NextJoin]_vars

\* -------------------------------------------------- specification SpecPage
\* Up to MaxPageCalls pagination calls (next, limit, pagination) on a
\* paginated builder, with cursor tokens that encode an (offset, page size)
\* pair and tokens that do not.
MaxPageCalls == 2
MaxOffset == 10
MaxPageSize == 2

\* one-digit and two-digit offsets: token texts of every length modulo 3
Offsets == {0, 1, MaxOffset}
PageSizes == (0..MaxPageSize) \cup {DEFAULT_PAGE_SIZE}

PairTokens ==
  {toPaginationToken(Num(skip), Num(take)) : skip \in Offsets, take \in PageSizes}
  \cup {toPaginationToken(Num(skip), Undef) : skip \in Offsets}

\* non-empty strings that are not the encoding of a pair: other JSON values,
\* characters outside the alphabet, a pair token cut short
MalformedTokens ==
  {toBase64(Arr(<<>>)), toBase64(Null), toBase64(EmptyObj), toBase64(Num(5)),
   toBase64(Bool(TRUE)), toBase64(Arr(<<Num(7)>>)),
   Str(<<"a", "b", "c">>), Str(<<"!", "!">>), Str(<<"W", "1", "0">>),
   Str(SubSeq(toPaginationToken(Num(10), Num(20)).s, 1, 5)), Str(<<"=">>)}

NoToken == {Undef, Null, EmptyStr}

Limits == {Num(50), Num(0), Undef, Null}

PageInput(token, value) == Obj((K("next") :> token) @@ (K("limit") :> value))

PaginationInputs ==
  {Undef, Null}
  \cup {PageInput(token, value) :
          token \in {toPaginationToken(Num(10), Undef), toPaginationToken(Num(3), Num(2)),
                     toBase64(Arr(<<>>)), Str(<<"a", "b", "c">>), Undef},
          value \in Limits}

InitPage == Init /\ builders[1].cls = "PaginatedQuery"

CanPage == steps < MaxPageCalls

NextPages ==
  \/ \E h \in Handles, token \in PairTokens : CanPage /\ NextPage(h, token)
  \/ \E h \in Handles, token \in MalformedTokens : CanPage /\ NextPage(h, token)
  \/ \E h \in Handles, token \in NoToken : CanPage /\ NextPage(h, token)
  \/ \E h \in Handles, value \in Limits : CanPage /\ Limit(h, value)
  \/ \E h \in Handles, input \in PaginationInputs : CanPage /\ Pagination(h, input)

SpecPage == InitPage /\ [][NextPages]_vars

\* -------------------------------------------------- specification SpecTerm
\* whereIn or whereOr on a new builder, then up to MaxTermCalls calls of the
\* remaining methods on the terminal handle it returned.
MaxTermCalls == 2

IsTerminal(h) == builders[h].cls \in {"TerminalQuery", "TerminalPaginatedQuery"}

\* the terminal handle has calls left
CanChain(h) == IsTerminal(h) /\ steps < MaxTermCalls + 1

Opening == steps = 0

NextTerm ==
  \/ \E h \in Handles, path \in {X, A_B} :
       Opening /\ WhereIn(h, path, Arr(<<Num(1), Num(2)>>))
  \/ \E h \in Handles, b2 \in {<<>>, <<Eq(A_B, Num(2))>>} :
       Opening /\ WhereOr(h, <<(<<Eq(X, Num(1))>>), b2>>)
  \/ \E h \in Handles : CanChain(h) /\ OrderByAscending(h, X)
  \/ \E h \in Handles : CanChain(h) /\ OrderByDescending(h, Y)
  \/ \E h \in Handles : CanChain(h) /\ Select(h, X)
  \/ \E h \in Handles, ks \in {Chain(RelR, Undef, Undef, Undef), Chain(RelR, RelS, Undef, Undef)} :
       CanChain(h) /\ FetchRelation(h, ks)
  \/ \E h \in Handles : CanChain(h) /\ LoadRelationIds(h)
  \/ \E h \in Handles, value \in {Bool(FALSE), Num(100)} : CanChain(h) /\ Cache(h, value)
  \/ \E h \in Handles, value \in {Num(50), Undef} : CanChain(h) /\ Limit(h, value)
  \/ \E h \in Handles, token \in {toPaginationToken(Num(10), Undef), Undef} :
       CanChain(h) /\ NextPage(h, token)
  \/ \E h \in Handles, input \in {PageInput(toPaginationToken(Num(3), Num(2)), Num(50)), Null} :
       CanChain(h) /\ Pagination(h, input)
  \/ \E h \in Handles : CanChain(h) /\ ToQuery(h)

SpecTerm == Init /\ [][NextTerm]_vars

\* -------------------------------------------------- specification SpecScan
\* A caller builds a paginated query, then reads the table page by page:
\* find, next with the token find returned, find again.
MaxRows == 3
MaxBuildCalls == 2
MaxScanCalls == 7

\* data.users: MaxRows rows, x alternating between 1 and 2
Table == [i \in 1..MaxRows |-> Row(i, IF i % 2 = 1 THEN 1 ELSE 2)]

\* whereOr(q => q, q => q)
OrOfNothing == <<(<<>>), <<>> >>

InitRepo(table) ==
  /\ builders = <<Handle("PaginatedQuery", 1)>>
  /\ heap = <<DefaultQuery>>
  /\ hist = <<(<<>>)>>
  /\ last = [d |-> NoDir, h |-> 1, pre |-> DefaultQuery, err |-> "", ret |-> 1]
  /\ plan = <<>>
  /\ steps = 0
  /\ rows = table
  /\ calls = <<>>
  /\ result = NoResult

InitScan == \E n \in 0..MaxRows : InitRepo(SubSeq(Table, 1, n))

\* the caller is still building: no repository call was made
CanBuild == result.op = "none" /\ steps < MaxBuildCalls

CanScan == steps < MaxBuildCalls + MaxScanCalls

\* the caller reads the first page, or the page the token it followed names
Scanning(h) == result.op = "none" \/ (result.op = "next" /\ result.h = h)

\* the handle is a paginated query
Paginated(h) == builders[h].cls \in {"PaginatedQuery", "TerminalPaginatedQuery"}

NextScan ==
  \/ \E h \in Handles, value \in {Num(1), Num(2)} : CanBuild /\ WhereEqualTo(h, X, value)
  \/ \E h \in Handles : CanBuild /\ WhereOr(h, OrOfNothing)
  \/ \E h \in Handles : CanBuild /\ OrderByDescending(h, X)
  \/ \E h \in Handles, value \in {Num(1), Num(2)} : CanBuild /\ Limit(h, value)
  \/ \E h \in Handles : CanScan /\ Paginated(h) /\ Scanning(h) /\ Find(h)
  \/ \E h \in Handles : CanScan /\ FollowNext(h)

SpecScan == InitScan /\ [][NextScan]_vars

\* --------------------------------------------------- specification SpecMod
\* A caller builds a query, then modifies the table through the repository.
MaxModCalls == 2

InitMod == InitRepo(Table)

CanModify == steps < MaxModCalls

\* the caller prepares the query it will pass: no repository call was made
CanPrepare == result.op = "none" /\ steps + 1 < MaxModCalls

IdsOrQueries ==
  {IdInput(Num(1)), IdInput(EmptyStr), IdInput(Undef),
   IdInput(Arr(<<Num(1), Num(3)>>)), IdInput(Arr(<<>>)),
   CallbackInput(<<>>), CallbackInput(<<Dir("whereOr", <<>>, Undef, Undef, <<>>, OrOfNothing)>>)}
    \cup {QueryInput(h) : h \in Handles}

NextMod ==
  \/ \E h \in Handles : CanPrepare /\ WhereEqualTo(h, X, Num(1))
  \/ \E h \in Handles : CanPrepare /\ WhereOr(h, OrOfNothing)
  \/ \E h \in Handles : CanPrepare /\ Limit(h, Num(2))
  \/ \E input \in IdsOrQueries :
       CanModify /\ UpdateMany(input, Obj(K("x") :> Num(7)))
  \/ \E input \in IdsOrQueries, softDelete \in BOOLEAN :
       CanModify /\ Delete(input, softDelete)
  \/ \E input \in IdsOrQueries : CanModify /\ Restore(input)
  \/ \E input \in IdsOrQueries : CanModify /\ Increment(input, K("x"), 1)

SpecMod == InitMod /\ [][NextMod]_vars

\* -------------------------------------------------- specification SpecFire
\* A caller builds a query for the Firestore provider.
MaxFireCalls == 2

InitFire ==
  /\ \E cls \in FirestoreClasses : builders = <<Handle(cls, 1)>>
  /\ heap = <<FirestoreDefault>>
  /\ hist = <<(<<>>)>>
  /\ last = [d |-> NoDir, h |-> 1, pre |-> FirestoreDefault, err |-> "", ret |-> 1]
  /\ plan = <<>>
  /\ steps = 0
  /\ rows = <<>>
  /\ calls = <<>>
  /\ result = NoResult

\* the caller has calls left and the class of h declares m
CanFire(h, m) == steps < MaxFireCalls /\ m \in MethodsOf(builders[h].cls)

SomeText == Str(<<"a">>)

FirestoreBranches ==
  {<<D1("whereEqualTo", X, Num(1))>>, <<D1("whereTextContains", X, SomeText)>>,
   <<Dir("whereJoin", R, Undef, Undef, <<>>, <<(<<>>)>>)>>,
   <<D1("fetchRelation", <<>>, Undef)>>}

NextFire ==
  \/ \E h \in Handles, m \in {"whereEqualTo", "whereMoreThan", "whereIn"},
        value \in {Num(1), Undef} :
       CanFire(h, m) /\ FirestoreWhere(h, m, X, value)
  \/ \E h \in Handles, to \in {Num(2), Undef} :
       CanFire(h, "whereBetween") /\ FirestoreWhereBetween(h, X, Num(1), to)
  \/ \E h \in Handles, value \in {SomeText, Undef, Null} :
       CanFire(h, "whereTextStartsWith") /\ FirestoreWhereTextStartsWith(h, X, value)
  \/ \E h \in Handles, m \in UnsupportedText, value \in {SomeText, Undef} :
       CanFire(h, m) /\ FirestoreWhereText(h, m, X, value)
  \/ \E h \in Handles : CanFire(h, "whereIsNull") /\ FirestoreWhereIsNull(h, X)
  \/ \E h \in Handles : CanFire(h, "whereIsNotNull") /\ FirestoreWhereIsNotNull(h, X)
  \/ \E h \in Handles, queryBuilder \in {<<>>, <<D1("whereEqualTo", X, Num(1))>>} :
       CanFire(h, "whereJoin") /\ FirestoreWhereJoin(h, R, queryBuilder)
  \/ \E h \in Handles, branch \in FirestoreBranches :
       CanFire(h, "whereOr")
         /\ FirestoreWhereOr(h, <<(<<D1("whereEqualTo", Y, Num(2))>>), branch>>)
  \/ \E h \in Handles : CanFire(h, "orderByAscending") /\ FirestoreOrderByAscending(h, X)
  \/ \E h \in Handles : CanFire(h, "orderByDescending") /\ FirestoreOrderByDescending(h, X)
  \/ \E h \in Handles : CanFire(h, "select") /\ FirestoreSelect(h, X)
  \/ \E h \in Handles, key2 \in {Undef, Str(X)} :
       CanFire(h, "fetchRelation") /\ FirestoreFetchRelation(h, <<Str(R), key2, Undef, Undef>>)
  \/ \E h \in Handles, value \in {Bool(FALSE), Undef} :
       CanFire(h, "cache") /\ FirestoreCache(h, value)
  \/ \E h \in Handles : CanFire(h, "next") /\ FirestoreNext(h, SomeText)
  \/ \E h \in Handles : CanFire(h, "limit") /\ FirestoreLimit(h, Num(5))
  \/ \E h \in Handles, input \in {Null, PageInput(SomeText, Num(5))} :
       CanFire(h, "pagination") /\ FirestorePagination(h, input)
  \/ \E h \in Handles : CanFire(h, "filter") /\ FirestoreFilter(h, Str(<<"predicate">>))
  \/ \E h \in Handles, cls \in FirestoreClasses :
       steps < MaxFireCalls /\ FromStatic(cls, h)

SpecFire == InitFire /\ [][NextFire]_vars

\* ------------------------------------------------- specification SpecMerge
\* deepMerge applied to a target and a source whose values at the keys a and
\* b are numbers, operators, dates, arrays and plain objects one and two
\* levels deep; the result of one merge is the target of the next, as in
\* setNestedWhere.
MaxMergeCalls == 2

\* new Date(ms)
Date(ms) == [t |-> "date", ms |-> ms]

A == <<"a">>
B == <<"b">>
C == <<"c">>

MergeValues ==
  {Num(1), MoreThan(Num(5)), Date(0), Arr(<<Num(1), Num(2)>>),
   Obj(B :> Num(1)), Obj(B :> MoreThan(Num(5))), Obj(C :> Num(2)),
   Obj(B :> Obj(C :> Num(2)))}

MergeObjects == {EmptyObj} \cup {Obj(A :> v) : v \in MergeValues}

InitMerge ==
  /\ \E target \in MergeObjects : heap = <<target>>
  /\ builders = <<>>
  /\ hist = <<>>
  /\ last = [d |-> NoDir, h |-> 0, pre |-> heap[1], err |-> "", ret |-> 0]
  /\ plan = <<>>
  /\ steps = 0
  /\ rows = <<>>
  /\ calls = <<>>
  /\ result = NoResult

\* deepMerge(target, source), target the object at ref: the result is a new
\* object, the target is left as it is
DeepMerge(ref, source) ==
  /\ steps < MaxMergeCalls
  /\ heap' = Append(heap, deepMerge(heap[ref], source))
  /\ last' = [d |-> Dir("deepMerge", <<>>, heap[ref], source, <<>>, <<>>), h |-> 0,
              pre |-> heap[ref], err |-> "", ret |-> Len(heap) + 1]
  /\ steps' = steps + 1
  /\ UNCHANGED <<builders, hist, plan, rows, calls, result>>

NextMerge == \E source \in MergeObjects : DeepMerge(Len(heap), source)

SpecMerge == InitMerge /\ [][NextMerge]_vars

\* --------------------------------------------------- specification SpecSub
\* whereOr and whereJoin taken one callback at a time.  The builder handed
\* to a callback is a handle of its own: the callback's directives are calls
\* on it, the construct reads its query when the callback returns, and the
\* caller may keep the handle and call it after the construct has returned.
\* plan holds the construct: kind, the receiver h, the key of a whereJoin,
\* the number n of callbacks, the handles subs handed out so far, the
\* predicates results the callbacks returned, the receiver's query object
\* ref and its contents pre when the construct was called, at the number of
\* calls the receiver had completed, err the error a callback threw.
MaxSubPrior == 1
MaxSubCalls == 6

Construct(kind, h, key, n, sub) ==
  [kind |-> kind, h |-> h, key |-> key, n |-> n, subs |-> <<sub>>, results |-> <<>>,
   ref |-> builders[h].ref, pre |-> toQuery(h), at |-> Len(hist[h]), err |-> ""]

Opened == plan # <<>>
\* the construct has returned or thrown
Ended == Opened /\ (plan[1].err # "" \/ Len(hist[plan[1].h]) > plan[1].at)
\* a callback is running
Running == Opened /\ ~Ended
\* the builder handed to the running callback
Current == plan[1].subs[Len(plan[1].subs)]
\* the callback has not thrown
Returning == Running /\ ~(last.h = Current /\ last.err # "")

\* the builder whose predicate seeds a branch: the previous branch
seededFromPrevious(c) == IF c.subs = <<>> THEN c.h ELSE c.subs[Len(c.subs)]

\* the builder whose predicate seeds a branch: `this`
seededFrom(c) == c.h

\* a callback builder made over the receiver's query object, as the static
\* from() makes one
AllocateShared(sub) ==
  /\ builders' = Append(builders, [cls |-> sub.cls, ref |-> builders[plan'[1].h].ref,
                                   ctx |-> sub.ctx, term |-> FALSE])
  /\ heap' = heap
  /\ hist' = Append(hist, <<>>)

\* const query = new Query(this.repository): a builder over a query object
\* of its own
Allocate(sub) ==
  /\ builders' = Append(builders, [cls |-> sub.cls, ref |-> Len(heap) + 1,
                                   ctx |-> sub.ctx, term |-> FALSE])
  /\ heap' = Append(heap, sub.query)
  /\ hist' = Append(hist, <<>>)

\* the call of a callback with a new builder
Handed(h, kind) ==
  [d |-> Dir("callback", <<kind>>, Undef, Undef, <<>>, <<>>), h |-> h, pre |-> toQuery(h),
   err |-> "", ret |-> Len(builders) + 1]

\* the builder of branch i of whereOr on h
Branch(c) ==
  orBranchBuilder(Deref(seededFrom(c)),
                  NewBuilder(IF builders[c.h].cls = "PaginatedQuery"
                             THEN "PaginatedQuery" ELSE "Query"))

\* h.whereOr(b1, .., bn) up to the call of b1
BeginOr(h, n) ==
  /\ steps < MaxSubCalls
  /\ plan = <<>>
  /\ "whereOr" \in MethodsOf(builders[h].cls)
  /\ plan' = <<Construct("or", h, <<>>, n, Len(builders) + 1)>>
  /\ Allocate(Branch([h |-> h, subs |-> <<>>]))
  /\ last' = Handed(h, "or")
  /\ steps' = steps + 1
  /\ UNCHANGED <<rows, calls, result>>

\* branch i has returned: its toQuery().where is kept and branch i + 1 is
\* called
NextBranch ==
  /\ steps < MaxSubCalls
  /\ Returning
  /\ plan[1].kind = "or"
  /\ Len(plan[1].subs) < plan[1].n
  /\ plan' = <<[plan[1] EXCEPT !.subs = Append(@, Len(builders) + 1),
                               !.results = Append(@, Where(Current))]>>
  /\ Allocate(Branch(plan[1]))
  /\ last' = Handed(plan[1].h, "or")
  /\ steps' = steps + 1
  /\ UNCHANGED <<rows, calls, result>>

\* the last branch has returned: this.query = setProperty('where', results)
EndOr ==
  /\ steps < MaxSubCalls
  /\ Returning
  /\ plan[1].kind = "or"
  /\ Len(plan[1].subs) = plan[1].n
  /\ Record(plan[1].h,
            Dir("whereOr", <<>>, Undef, Undef, <<>>,
                [i \in 1..plan[1].n |-> hist[plan[1].subs[i]]]),
            orResult(Deref(plan[1].h),
                     [err |-> "", s |-> Append(plan[1].results, Where(Current))]),
            Len(heap) + 1)

\* h.whereJoin(key, queryBuilder) up to the call of queryBuilder
BeginJoin(h, key) ==
  /\ steps < MaxSubCalls
  /\ plan = <<>>
  /\ "whereJoin" \in MethodsOf(builders[h].cls)
  /\ plan' = <<Construct("join", h, key, 1, Len(builders) + 1)>>
  /\ Allocate([NewBuilder("Query") EXCEPT !.ctx.insideWhereJoin = TRUE])
  /\ last' = Handed(h, "join")
  /\ steps' = steps + 1
  /\ UNCHANGED <<rows, calls, result>>

\* queryBuilder has returned: relations.<key> and where.<key> are written
EndJoin ==
  /\ steps < MaxSubCalls
  /\ Returning
  /\ plan[1].kind = "join"
  /\ Record(plan[1].h,
            Dir("whereJoin", plan[1].key, Undef, Undef, <<>>, <<hist[Current]>>),
            joinResult(Deref(plan[1].h), plan[1].key,
                       Res("Query", toQuery(Current), builders[Current].ctx, FALSE, "")),
            Len(heap) + 1)

\* a call in the callback has thrown: the construct throws the same error
Abort ==
  /\ steps < MaxSubCalls
  /\ Running
  /\ last.h = Current
  /\ last.err # ""
  /\ plan' = <<[plan[1] EXCEPT !.err = last.err]>>
  /\ last' = [d |-> Dir(IF plan[1].kind = "or" THEN "whereOr" ELSE "whereJoin",
                        plan[1].key, Undef, Undef, <<>>, <<>>),
              h |-> plan[1].h, pre |-> toQuery(plan[1].h), err |-> last.err, ret |-> 0]
  /\ steps' = steps + 1
  /\ UNCHANGED <<builders, heap, hist, rows, calls, result>>

\* the handles that have been handed to callbacks
Subs == IF Opened THEN {plan[1].subs[i] : i \in 1..Len(plan[1].subs)} ELSE {}

\* who may be called: the receiver before the construct, the builder of
\* the running callback during it, the receiver and the builders handed out
\* after it
CanStep(h) ==
  /\ steps < MaxSubCalls
  /\ IF ~Opened THEN steps < MaxSubPrior
     ELSE IF Running THEN h = Current /\ last.err = ""
     ELSE h \in Subs \cup {plan[1].h}

NextSub ==
  \/ \E h \in Handles : BeginOr(h, 2)
  \/ NextBranch
  \/ EndOr
  \/ \E h \in Handles : BeginJoin(h, R)
  \/ EndJoin
  \/ Abort
  \/ \E h \in Handles, path \in {Y, A_B} : CanStep(h) /\ WhereEqualTo(h, path, Num(1))
  \/ \E h \in Handles : CanStep(h) /\ WhereIn(h, X, Arr(<<Num(1)>>))
  \/ \E h \in Handles : CanStep(h) /\ FetchRelation(h, <<Str(R), Undef, Undef, Undef>>)
  \/ \E h \in Handles : CanStep(h) /\ Cache(h, Bool(FALSE))

SpecSub == Init /\ [][NextSub]_vars

\* -------------------------------------------------- specification SpecLoop
\* paginate(fetchNext) taken one turn of its do/while at a time, fetchNext
\* any function that returns pages: each call returns no item or one and a
\* next token that is absent, empty, or one of two tokens.  result holds the
\* locals of paginate: items the result array, next the variable nextToken,
\* repeatCounter, and done once the loop has ended; calls holds the tokens
\* fetchNext has returned.
MaxFetches == 7
MaxItems == 8

T1 == Str(<<"t1">>)
T2 == Str(<<"t2">>)

NextTokens == {Undef, Null, EmptyStr, T1, T2}

\* the pages fetchNext may resolve to
Pages == {[items |-> items, next |-> token] :
            items \in {<<>>, <<Row(1, 1)>>}, token \in NextTokens}

InitLoop ==
  /\ result = [op |-> "paginate", items |-> <<>>, next |-> Undef,
               repeatCounter |-> MAX_REPEAT_COUNT, done |-> FALSE]
  /\ calls = <<>>
  /\ builders = <<>>
  /\ heap = <<>>
  /\ hist = <<>>
  /\ last = [d |-> NoDir, h |-> 0, pre |-> Undef, err |-> "", ret |-> 0]
  /\ plan = <<>>
  /\ steps = 0
  /\ rows = <<>>

\* repeatCounter = nextToken === next ? repeatCounter - 1 : MAX_REPEAT_COUNT
repeated(nextToken, token, repeatCounter) ==
  IF nextToken = token THEN repeatCounter - 1 ELSE MAX_REPEAT_COUNT

\* one turn of the do/while, page what fetchNext(nextToken) resolved to
paginateStep(page) ==
  /\ ~result.done
  /\ result' =
       [result EXCEPT
          !.items = @ \o page.items,
          !.repeatCounter = repeated(result.next, page.next, @),
          !.next = page.next,
          !.done = ~(IsTruthy(page.next)
                     /\ repeated(result.next, page.next, result.repeatCounter) > 0)]
  /\ UNCHANGED <<builders, heap, hist, last, plan, rows>>

\* a turn, the token returned kept on record
Fetch(page) ==
  /\ Len(calls) < MaxFetches
  /\ paginateStep(page)
  /\ calls' = Append(calls, page.next)
  /\ steps' = steps + 1

NextLoop == \E page \in Pages : Fetch(page)

SpecLoop == InitLoop /\ [][NextLoop]_vars

\* ---------------------------------------------- specification SpecLoopFair
\* The same loop with no record of the calls, over a fetchNext that returns
\* at most MaxItems items in all; a turn that can be taken is taken.
Turn(page) ==
  /\ Len(result.items) + Len(page.items) <= MaxItems
  /\ paginateStep(page)
  /\ UNCHANGED <<calls, steps>>

NextLoopFair == \E page \in Pages : Turn(page)

SpecLoopFair == InitLoop /\ [][NextLoopFair]_vars /\ WF_vars(NextLoopFair)

\* ------------------------------------------------- specification SpecRetry
\* withRetry(callback, options) taken one statement at a time; callback
\* settles either way on every attempt.  result holds the call: options,
\* the local retry, pc the statement to run next, and what an observer
\* sees: attempts the outcomes of the calls of callback, waits the delays
\* waited, nexts the arguments given to options.next, raised whether the
\* promise rejected.
MaxRetry == 3

DEFAULT_RETRY == 5
DEFAULT_WAIT_IN_MS == 5000

RetryOptions ==
  {[retry |-> r, waitInMs |-> w, next |-> n] :
     r \in {Undef} \cup {Num(i) : i \in (0 - 1)..MaxRetry}, w \in {Undef, Num(10)},
     n \in BOOLEAN}

InitRetry ==
  /\ \E options \in RetryOptions :
       result = [op |-> "withRetry", options |-> options,
                 retry |-> Coalesce(options.retry, Num(DEFAULT_RETRY)).n + 1,
                 pc |-> "while", attempts |-> <<>>, waits |-> <<>>, nexts |-> <<>>,
                 raised |-> FALSE]
  /\ calls = <<>>
  /\ builders = <<>>
  /\ heap = <<>>
  /\ hist = <<>>
  /\ last = [d |-> NoDir, h |-> 0, pre |-> Undef, err |-> "", ret |-> 0]
  /\ plan = <<>>
  /\ steps = 0
  /\ rows = <<>>

\* try { await callback(); break } catch (e) { console.log(e) } that lets
\* the last failure escape
settledRethrowing(fulfilled, retry) ==
  IF fulfilled THEN [pc |-> "done", raised |-> FALSE]
  ELSE IF retry = 0 THEN [pc |-> "done", raised |-> TRUE]
  ELSE [pc |-> "wait", raised |-> FALSE]

\* try { await callback(); break } catch (e) { console.log(e) }
settled(fulfilled, retry) ==
  IF fulfilled THEN [pc |-> "done", raised |-> FALSE]
  ELSE [pc |-> "wait", raised |-> FALSE]

\* while (retry-- > 0)
RetryWhile ==
  /\ result.pc = "while"
  /\ result' = [result EXCEPT !.retry = @ - 1,
                              !.pc = IF result.retry > 0 THEN "callback" ELSE "done"]
  /\ UNCHANGED <<builders, heap, hist, last, plan, steps, rows, calls>>

\* await callback(), fulfilled or rejected
RetryCallback(fulfilled) ==
  /\ result.pc = "callback"
  /\ result' = [result EXCEPT !.attempts = Append(@, fulfilled),
                              !.pc = settled(fulfilled, result.retry).pc,
                              !.raised = settled(fulfilled, result.retry).raised]
  /\ UNCHANGED <<builders, heap, hist, last, plan, steps, rows, calls>>

\* await new Promise(resolve => setTimeout(resolve, waitInMs ?? DEFAULT_WAIT_IN_MS))
RetryWait ==
  /\ result.pc = "wait"
  /\ result' = [result EXCEPT
                  !.waits = Append(@, Coalesce(result.options.waitInMs,
                                               Num(DEFAULT_WAIT_IN_MS))),
                  !.pc = "next"]
  /\ UNCHANGED <<builders, heap, hist, last, plan, steps, rows, calls>>

\* options?.next?.(retry)
RetryNext ==
  /\ result.pc = "next"
  /\ result' = [result EXCEPT
                  !.nexts = IF result.options.next THEN Append(@, result.retry) ELSE @,
                  !.pc = "while"]
  /\ UNCHANGED <<builders, heap, hist, last, plan, steps, rows, calls>>

NextRetry ==
  \/ RetryWhile
  \/ \E fulfilled \in BOOLEAN : RetryCallback(fulfilled)
  \/ RetryWait
  \/ RetryNext

\* every statement that can run does
SpecRetry == InitRetry /\ [][NextRetry]_vars /\ WF_vars(NextRetry)

\* ------------------------------------------------------ reading predicates
RECURSIVE LeafPaths(_)
\* the key paths of a tree that end in a value other than a plain object
LeafPaths(v) ==
  IF v.t = "obj"
  THEN UNION {{<<k>> \o p : p \in LeafPaths(v.f[k])} : k \in DOMAIN v.f}
  ELSE {<<>>}

RECURSIVE Holds(_, _, _)
\* the value at key path keys is leaf, in the tree or in every alternative
Holds(v, keys, leaf) ==
  IF v.t = "arr" THEN \A i \in 1..Len(v.s) : Holds(v.s[i], keys, leaf)
  ELSE GetPath(v, keys) = leaf

RECURSIVE Touches(_, _)
\* a directive of the chain (or of an OR nested in it) addresses keys,
\* a prefix of it, or a path below it
Touches(prog, keys) ==
  \E j \in 1..Len(prog) :
    IF prog[j].m = "whereOr"
    THEN \E n \in 1..Len(prog[j].subs) : Touches(prog[j].subs[n], keys)
    ELSE Overlap(Split(prog[j].p), keys)

\* the value a simple predicate directive is to store at its path
Stored(d) ==
  CASE d.m = "whereEqualTo" -> IF d.v.t = "undef" THEN IsNull ELSE d.v
    [] d.m = "whereNotEqualTo" -> IF d.v.t = "undef" THEN Not(IsNull) ELSE Not(d.v)
    [] d.m = "whereIsNull" -> IsNull
    [] d.m = "whereIsNotNull" -> Not(IsNull)
    [] d.m = "whereIn" -> In(Coalesce(d.v, Arr(<<>>)))
    [] OTHER -> OperatorOf(d.m, d.v, d.w)

SimpleWhere(d) == d.m \in WhereMethods \ {"whereJoin", "whereOr"}

\* ---------------------------------------------------------------------- C1
OrDone == last.d.m = "whereOr" /\ last.err = ""
PreWhere == GetKey(last.pre, K("where"))

TerminalClasses == {"TerminalQuery", "TerminalPaginatedQuery"}

C3_NoWayBack ==
  ~(/\ last.d.m \in WhereMethods \ {"whereIn", "whereOr"}
    /\ last.err = ""
    /\ builders[last.h].term)

\* ---------------------------------------------------------------------- C4
RECURSIVE FirstWhereIn(_, _)
\* the construct ("join", "or") whose callback first calls whereIn on the
\* builder it was handed, walking the directives in execution order
FirstWhereIn(prog, construct) ==
  IF prog = <<>> THEN ""
  ELSE LET d == Head(prog)
           inner ==
             CASE d.m = "whereIn" -> construct
               [] d.m = "whereJoin" -> FirstWhereIn(d.subs[1], "join")
               [] d.m = "whereOr" ->
                    LET hit == {n \in 1..Len(d.subs) : FirstWhereIn(d.subs[n], "or") # ""}
                    IN IF hit = {} THEN ""
                       ELSE FirstWhereIn(d.subs[CHOOSE n \in hit : \A k \in hit : n <= k], "or")
               [] OTHER -> ""
       IN IF inner # "" THEN inner ELSE FirstWhereIn(Tail(prog), construct)

\* C4: a whereJoin or whereOr call whose callbacks, at any nesting depth,
\* call whereIn on the sub-builder they are handed throws the error naming
\* the construct that handed out that sub-builder.
C4_WhereInForbidden ==
  (/\ last.d.m \in {"whereJoin", "whereOr"}
   /\ last.d.m \in MethodsOf(builders[last.h].cls)
   /\ FirstWhereIn(<<last.d>>, "") # "") =>
    last.err = (IF FirstWhereIn(<<last.d>>, "") = "join" THEN ERR_IN_JOIN ELSE ERR_IN_OR)

\* whereJoin threw the whereOr error raised two callbacks deep
C4_Witness ==
  /\ last.d.m = "whereJoin"
  /\ last.err = ERR_IN_OR
  /\ last.d.subs[1][1].m = "whereOr"

\* ---------------------------------------------------------------------- C5
\* the segments s1..sk of the nested paths in use, written out
Segments(path) ==
  CASE path = A_B -> <<K("a"), K("b")>>
    [] path = A_D -> <<K("a"), K("d")>>
    [] path = A_B_C -> <<K("a"), K("b"), K("c")>>
    [] path = A_B_C_D -> <<K("a"), K("b"), K("c"), K("d")>>
    [] path = R_X -> <<K("r"), K("x")>>

RECURSIVE Nest(_, _)
\* {k1: {k2: ... {kn: leaf}}}
Nest(keys, leaf) ==
  IF keys = <<>> THEN leaf ELSE Obj(Head(keys) :> Nest(Tail(keys), leaf))

\* a predicate directive on a nested path completed on an empty builder
PathDone ==
  /\ SimpleWhere(last.d)
  /\ last.d.m \notin {"whereArrayContains", "whereArrayContainsAny"}
  /\ isNestedPath(last.d.p)
  /\ last.err = ""
  /\ last.pre = DefaultQuery

\* C5: on an empty builder a predicate directive on the nested path s1...sk
\* (k >= 2) with leaf value V leaves predicate {s1:{...{sk:V}}} and relations
\* {s1:{...{s(k-1):true}}}.
C5_NestedPathShape ==
  PathDone =>
    /\ Where(last.ret) = Nest(Segments(last.d.p), Stored(last.d))
    /\ Relations(last.ret) =
         Nest(SubSeq(Segments(last.d.p), 1, Len(Segments(last.d.p)) - 1), True)

\* whereEqualTo('a.b.c', 0) completed on an empty builder and declared the
\* relation a.b
C5_Witness ==
  /\ PathDone
  /\ last.d.m = "whereEqualTo"
  /\ last.d.p = A_B_C
  /\ last.d.v = Num(0)
  /\ GetPath(Relations(last.ret), <<K("a"), K("b")>>) = True

\* ---------------------------------------------------------------------- C6
\* C6: whereEqualTo(path, undefined) leaves the query whereIsNull(path) would
\* leave: the isNull operator at path (in every alternative), and for a
\* nested path the relation declared.
C6_UndefinedIsNull ==
  (last.d.m = "whereEqualTo" /\ last.d.v = Undef /\ last.err = "") =>
    /\ toQuery(last.h) =
         whereIsNull([cls |-> builders[last.h].cls, query |-> last.pre,
                      ctx |-> builders[last.h].ctx], last.d.p).query
    /\ Holds(Where(last.h), Split(last.d.p), IsNull)
    /\ isNestedPath(last.d.p) => IsTruthy(GetKey(Relations(last.h), K("a")))

\* whereEqualTo with an undefined value completed on a nested path
C6_Witness ==
  /\ last.d.m = "whereEqualTo"
  /\ last.d.v = Undef
  /\ last.err = ""
  /\ isNestedPath(last.d.p)
  /\ Where(last.h).t = "obj"

\* ---------------------------------------------------------------------- C7
\* C7: whereEqualTo(path, v) with a defined v, falsy or not, stores v at
\* path, for direct and nested paths alike.
C7_DefinedValueStored ==
  (last.d.m = "whereEqualTo" /\ last.d.v # Undef /\ last.err = "") =>
    /\ isDefined(Where(last.h))
    /\ Holds(Where(last.h), Split(last.d.p), last.d.v)

\* ---------------------------------------------------------------------- C8
\* both builders have made both calls of the plan
PairDone == Len(plan) = 2 /\ Len(hist) = 2 /\ Len(hist[1]) = 2 /\ Len(hist[2]) = 2

\* C8: whereEqualTo(P1, V1) then whereEqualTo(P2, V2) on non-overlapping
\* nested paths leaves the predicate tree and the relations tree that the
\* opposite order leaves, and both hold the two writes: each leaf in the
\* predicate, each relation path in relations.
C8_OrderIndependent ==
  PairDone =>
    /\ Where(1) = Where(2)
    /\ Relations(1) = Relations(2)
    /\ \A h \in 1..2, i \in 1..2 :
         /\ GetPath(Where(h), Segments(plan[i].p)) = Stored(plan[i])
         /\ IsTruthy(GetPath(Relations(h),
                             SubSeq(Segments(plan[i].p), 1, Len(Segments(plan[i].p)) - 1)))

Declared(h) ==
  {DefinedKeys(hist[h][i].ks) : i \in {j \in 1..Len(hist[h]) : hist[h][j].m = "fetchRelation"}}

\* C10: after any sequence of fetchRelation calls the relations tree is the
\* union of the declared chains: every declared chain is present in it and
\* every branch of it is a declared chain ending in true.
C10_UnionOfChains ==
  \A h \in Handles :
    Declared(h) # {} =>
      /\ \A chain \in Declared(h) : IsTruthy(GetPath(Relations(h), chain))
      /\ \A keys \in LeafPaths(Relations(h)) :
           keys \in Declared(h) /\ GetPath(Relations(h), keys) = True

\* --------------------------------------------------------------------- C11
JoinDone == last.d.m = "whereJoin" /\ last.err = ""

\* what the callback of the latest whereJoin left in its sub-builder
JoinSub ==
  RunProg([NewBuilder("Query") EXCEPT !.ctx.insideWhereJoin = TRUE], last.d.subs[1]).query

\* C11: whereJoin(r, f) leaves the sub-builder's relation tree (true when it
\* declared none) under relations[r] and its predicate tree under
\* predicate[r], and keeps what was accumulated before: every relation chain
\* declared earlier is still declared, and every earlier condition the
\* sub-builder's predicate does not re-address still holds.
C11_JoinMerges ==
  JoinDone =>
    LET rel == GetKey(JoinSub, K("relations"))
        where == GetKey(JoinSub, K("where"))
        r == last.d.p
    IN /\ \A keys \in LeafPaths(Coalesce(rel, True)) :
            GetPath(Relations(last.h), <<r>> \o keys) = True
       /\ isDefined(where) =>
            \A keys \in LeafPaths(where) :
              GetPath(Where(last.h), <<r>> \o keys) = GetPath(where, keys)
       /\ \A keys \in LeafPaths(Coalesce(GetKey(last.pre, K("relations")), EmptyObj)) :
            IsTruthy(GetPath(Relations(last.h), keys))
       /\ \A keys \in LeafPaths(Coalesce(PreWhere, EmptyObj)) :
            \/ isDefined(where) /\ \E sub \in LeafPaths(where) : Overlap(<<r>> \o sub, keys)
            \/ GetPath(Where(last.h), keys) = GetPath(PreWhere, keys)

\* --------------------------------------------------------------------- C12
Skip(h) == GetKey(toQuery(h), K("skip"))
Take(h) == GetKey(toQuery(h), K("take"))

\* C12: for non-negative integers skip and take,
\* decodeNextToken(toPaginationToken({skip, take})) returns [skip, take], and
\* next applied to that token sets the query's skip to skip and its take to
\* take.
\* (the round trip of the two functions does not depend on the state and is
\* evaluated in the initial states).
C12_TokenRoundTrip ==
  /\ steps = 0 =>
       \A skip \in Offsets, take \in PageSizes :
         decodeNextToken(toPaginationToken(Num(skip), Num(take)))
           = Returned(Arr(<<Num(skip), Num(take)>>))
  /\ last.d.m = "next" =>
       \A skip \in Offsets, take \in PageSizes :
         last.d.v = toPaginationToken(Num(skip), Num(take)) =>
           /\ last.err = ""
           /\ Skip(last.h) = Num(skip)
           /\ Take(last.h) = Num(take)

\* next completed with the token of offset 10 and page size 0, on a builder
\* whose page size had been set to 50
C12_Witness ==
  /\ last.d.m = "next"
  /\ last.err = ""
  /\ last.d.v = toPaginationToken(Num(10), Num(0))
  /\ GetKey(last.pre, K("take")) = Num(50)
  /\ Skip(last.h) = Num(10)

\* --------------------------------------------------------------------- C13
\* C13: next(token) with a non-empty token that is not the encoding of an
\* (offset, page size) pair fails with the 'Invalid next token' error and
\* leaves skip and take as they were.
C13_MalformedTokenRejected ==
  (last.d.m = "next" /\ last.d.v \in MalformedTokens) =>
    /\ last.err = ERR_INVALID_TOKEN
    /\ Skip(last.h) = GetKey(last.pre, K("skip"))
    /\ Take(last.h) = GetKey(last.pre, K("take"))

\* --------------------------------------------------------------------- C15
\* the predicate branch i of the latest whereOr leaves in the builder it is
\* handed
BranchWhere(i) ==
  GetKey(RunProg([NewBuilder("Query") EXCEPT
                    !.query = Assign(DefaultQuery, K("where"), PreWhere),
                    !.ctx.insideWhereOr = TRUE],
                 last.d.subs[i]).query,
         K("where"))

\* C15: after whereOr with N branch functions the predicate is a list of
\* exactly N trees, the i-th the tree of the i-th branch, also when a branch
\* adds no condition and when the builder had no predicate before.
C15_OneTreePerBranch ==
  OrDone =>
    /\ Where(last.ret).t = "arr"
    /\ Len(Where(last.ret).s) = Len(last.d.subs)
    /\ \A i \in 1..Len(last.d.subs) :
         Where(last.ret).s[i] = Coalesce(BranchWhere(i), EmptyObj)

\* --------------------------------------------------------------------- C16
NextOf(token) == D1("next", <<>>, token)
LimitOf(value) == D1("limit", <<>>, value)

\* the calls completed on handle h applied the cursor token and the limit
CursorAndLimit(h, token, value) ==
  \/ hist[h] = <<NextOf(token), LimitOf(value)>>
  \/ hist[h] = <<LimitOf(value), NextOf(token)>>
  \/ hist[h] = <<D1("pagination", <<>>, PageInput(token, value))>>

\* C16: once a cursor token and a truthy limit n have both been applied to a
\* paginated builder, by next then limit, limit then next or
\* pagination({next, limit}), take is n and skip is the token's offset.
C16_LimitOverridesToken ==
  \A h \in Handles, skip \in Offsets, take \in PageSizes, value \in {v \in Limits : IsTruthy(v)} :
    CursorAndLimit(h, toPaginationToken(Num(skip), Num(take)), value) =>
      Skip(h) = Num(skip) /\ Take(h) = value

\* --------------------------------------------------------------------- C14
\* the methods of the terminal operation set other than toQuery
SafeMethods(cls) ==
  {"orderByAscending", "orderByDescending", "select", "fetchRelation",
   "loadRelationIds", "cache"}
  \cup (IF cls = "TerminalPaginatedQuery" THEN {"limit", "next", "pagination"} ELSE {})

\* the effect of directive d shows in the query q
Reflected(d, q) ==
  CASE d.m = "orderByAscending" -> GetPath(q, <<K("order"), d.p>>) = Str(<<"ASC">>)
    [] d.m = "orderByDescending" -> GetPath(q, <<K("order"), d.p>>) = Str(<<"DESC">>)
    [] d.m = "select" -> GetPath(q, <<K("select"), d.v.s>>) = True
    [] d.m = "fetchRelation" -> GetPath(q, <<K("relations")>> \o DefinedKeys(d.ks)) = True
    [] d.m = "loadRelationIds" -> GetKey(q, K("loadRelationIds")) = d.v
    [] d.m = "cache" -> GetKey(q, K("cache")) = d.v
    [] d.m = "limit" -> IsTruthy(d.v) => GetKey(q, K("take")) = d.v
    [] d.m = "next" ->
         d.v = toPaginationToken(Num(10), Undef) =>
           GetKey(q, K("skip")) = Num(10) /\ GetKey(q, K("take")) = Num(DEFAULT_PAGE_SIZE)
    [] d.m = "pagination" ->
         d.v = PageInput(toPaginationToken(Num(3), Num(2)), Num(50)) =>
           GetKey(q, K("skip")) = Num(3) /\ GetKey(q, K("take")) = Num(50)

\* the latest call is one of the remaining methods, made on a terminal handle
SafeCall ==
  /\ builders[last.h].cls \in TerminalClasses
  /\ last.d.m \in SafeMethods(builders[last.h].cls)

\* C14: on the handle whereIn or whereOr returned, orderByAscending,
\* orderByDescending, select, fetchRelation, loadRelationIds and cache (and
\* limit, next and pagination on the paginated variant) succeed, show in
\* toQuery(), and leave the predicate of the terminal operation as it was.
C14_SafeMethodsAfterTerminal ==
  SafeCall =>
    /\ last.err = ""
    /\ Reflected(last.d, toQuery(last.h))
    /\ Where(last.h) = GetKey(last.pre, K("where"))
    /\ isDefined(Where(last.h))

\* next completed on the paginated terminal handle whereOr returned, after
\* fetchRelation, and the two alternatives are still the predicate
C14_Witness ==
  /\ SafeCall
  /\ last.d.m = "next"
  /\ last.err = ""
  /\ Where(last.h).t = "arr"
  /\ Len(hist[last.h]) = 2
  /\ hist[last.h][1].m = "fetchRelation"
  /\ GetKey(toQuery(last.h), K("skip")) = Num(10)

\* ---------------------------------------------------------------- C17
Modifications == {"updateMany", "delete", "restore", "increment"}

StoreModifications == {"update", "delete", "softDelete", "restore", "increment"}

\* the where the argument of the latest repository call yielded
SuppliedWhere ==
  CASE result.arg.kind = "query" -> Where(result.arg.h)
    [] result.arg.kind = "callback" ->
         GetKey(RunProg(NewBuilder("Query"), result.arg.prog).query, K("where"))
    [] OTHER -> whereOfId(result.arg.v)

\* a where that holds no condition: absent, an object without a key, or a
\* list without an alternative
NoCondition(where) ==
  \/ ~isDefined(where)
  \/ where = EmptyObj
  \/ where.t = "arr" /\ where.s = <<>>

\* the latest call is updateMany/delete/restore/increment
Modified == result.op \in Modifications

\* C17: updateMany, delete, restore and increment never reach the store with
\* an absent or empty predicate: when the supplied id or query yields no
\* WHERE condition the call rejects with 'Invalid query: no WHERE
\* condition!' and no call reaches the store.
C17_NoWhereRejected ==
  Modified =>
    /\ \A i \in 1..Len(calls) : ~NoCondition(calls[i].where)
    /\ NoCondition(SuppliedWhere) => result.err = ERR_NO_WHERE /\ calls = <<>>

\* a modification given a query whose where is the empty list went through:
\* the store was read with that list and then modified
C17_EmptyListModifies ==
  /\ Modified
  /\ SuppliedWhere = Arr(<<>>)
  /\ result.err = ""
  /\ calls[1] = StoreCall("find", Arr(<<>>))
  /\ \E i \in 1..Len(calls) : calls[i].op \in StoreModifications

\* ---------------------------------------------------------------- C18
\* the latest repository call is a find that resolved
Found == result.op = "find" /\ result.err = ""

\* the rows of the table the query of handle h selects
Selected(h) == {rows[i] : i \in {j \in 1..Len(rows) : matchesWhere(rows[j], Where(h))}}

\* the page find returned is empty or holds fewer items than take
LastPage(h) == Len(result.items) = 0 \/ Len(result.items) < Take(h).n

\* the offset and page size a token carries
Cursor(token) == decodeNextToken(token).v

\* C18: find returns next = null exactly when the page is empty or holds
\* fewer items than take, and otherwise a token for offset skip + take with
\* the same take; a scan that starts without a token and follows each next
\* over the unchanged table has, when next = null, returned every selected
\* row exactly once.
C18_ScanReturnsEachOnce ==
  Found =>
    /\ result.next = Null <=> LastPage(result.h)
    /\ result.next # Null =>
         Cursor(result.next) =
           Arr(<<Num(Coalesce(Skip(result.h), Zero).n + Take(result.h).n), Take(result.h)>>)
    /\ result.next = Null /\ result.from = Undef =>
         /\ {result.seen[i] : i \in 1..Len(result.seen)} = Selected(result.h)
         /\ Len(result.seen) = Cardinality(Selected(result.h))

\* a scan over several pages ended: the last page came after at least two
\* full ones
C18_Witness ==
  /\ Found
  /\ result.next = Null
  /\ result.from = Undef
  /\ Len(result.seen) >= Len(result.items) + 2

\* ---------------------------------------------------------------- C19
Unsupported == UnsupportedText \cup {"whereJoin", "fetchRelation"}

NotSupportedErrors == {ERR_TEXT_SEARCH, ERR_JOIN_NOT_IMPLEMENTED, ERR_FETCH_NOT_IMPLEMENTED}

\* the latest call is one of the unsupported methods on a Firestore builder
UnsupportedCalled ==
  /\ last.d.m \in Unsupported
  /\ builders[last.h].cls \in FirestoreClasses

\* the latest call is a whereOr on a Firestore builder with a branch that
\* calls an unsupported where method
UnsupportedInBranch ==
  /\ last.d.m = "whereOr"
  /\ builders[last.h].cls \in FirestoreClasses
  /\ \E i \in 1..Len(last.d.subs) :
       /\ last.d.subs[i] # <<>>
       /\ last.d.subs[i][1].m \in UnsupportedText \cup {"whereJoin"}

\* C19: on a Firestore builder whereTextContains, whereTextEndsWith, the
\* three case-insensitive text operators, whereJoin and fetchRelation raise
\* a not-supported / not-implemented error whenever they are called, directly
\* or in a branch of whereOr, and leave the accumulated query as it was.
C19_UnsupportedRaises ==
  UnsupportedCalled \/ UnsupportedInBranch =>
    last.err \in NotSupportedErrors /\ toQuery(last.h) = last.pre

\* an unsupported operator was called on a query that already holds a filter
C19_Witness ==
  /\ UnsupportedCalled
  /\ last.d.m \in UnsupportedText
  /\ GetKey(last.pre, K("queryRef")) # Collection
  /\ last.err = ERR_TEXT_SEARCH

\* ---------------------------------------------------------------- C20
RECURSIVE Covers(_, _)
\* relations has an entry for every relation the where tree descends into
Covers(relations, where) ==
  where.t = "obj" =>
    \A key \in DOMAIN where.f :
      where.f[key].t = "obj" =>
        /\ IsTruthy(GetKey(relations, key))
        /\ Covers(GetKey(relations, key), where.f[key])

\* the predicate trees of a query: the single tree or the OR alternatives
Alternatives(where) ==
  IF where.t = "arr" THEN {where.s[i] : i \in 1..Len(where.s)} ELSE {where}

\* C20: in every reachable builder state, every path of the predicate that
\* traverses a relation (in the single tree or in an OR alternative) has
\* entries in relations for each of its intermediate segments.
C20_RelationsCoverWhere ==
  \A h \in Handles : \A where \in Alternatives(Where(h)) : Covers(Relations(h), where)

\* --------------------------------------------------------------------- C21
\* an operator value, a date or an array
Unmergeable(v) == v.t \in {"op", "date", "arr"}

RECURSIVE Wholesale(_, _, _)
\* at every key of source, at every depth the merge reaches, where the value
\* of target or of source is unmergeable, merged holds the value of source
Wholesale(target, source, merged) ==
  \A key \in DOMAIN OwnFields(source) :
    LET sourceValue == OwnFields(source)[key]
        targetValue == GetKey(target, key)
        mergedValue == GetKey(merged, key)
    IN IF Unmergeable(targetValue) \/ Unmergeable(sourceValue)
       THEN mergedValue = sourceValue
       ELSE (targetValue.t = "obj" /\ sourceValue.t = "obj") =>
              Wholesale(targetValue, sourceValue, mergedValue)

\* C21: deepMerge(target, source) never recurses into a key at which the
\* value of target or of source is an operator, a date or an array: the
\* merged object holds the source value there, unchanged.
C21_SpecialValuesReplaced ==
  last.d.m = "deepMerge" => Wholesale(last.d.v, last.d.w, heap[last.ret])

\* C21, the half the code keeps: where the value of source is an operator, a
\* date or an array, or the value of target is an array, the merged object
\* holds the source value.
C21_SourceSpecialReplaces ==
  last.d.m = "deepMerge" =>
    \A key \in DOMAIN OwnFields(last.d.w) :
      (Unmergeable(OwnFields(last.d.w)[key]) \/ GetKey(last.d.v, key).t = "arr") =>
        GetKey(heap[last.ret], key) = OwnFields(last.d.w)[key]

\* --------------------------------------------------------------------- C22
\* the receiver of the latest call has made a whereOr that completed, and
\* the predicate was a list of alternatives when the latest call began
AfterOr ==
  /\ last.h \in Handles
  /\ \E i \in 1..Len(hist[last.h]) :
       hist[last.h][i].m = "whereOr" /\ (i < Len(hist[last.h]) \/ last.err # "")
  /\ PreWhere.t = "arr"

\* C22: once the predicate is a list of alternatives, no call made on the
\* handle that whereOr was called on changes an alternative: the list after
\* the call is the list before it.
C22_AlternativesFrozen == AfterOr => Where(last.h) = PreWhere

\* C22, the calls that keep the list: every call other than a predicate
\* directive that completes.
C22_OtherCallsKeepAlternatives ==
  (AfterOr /\ (last.d.m \notin WhereMethods \/ last.err # "")) => Where(last.h) = PreWhere

\* --------------------------------------------------------------------- C23
\* a call on handle h has just completed after the construct returned
CalledAfter(h) == Ended /\ last.h = h /\ last.d.m \notin {"whereOr", "whereJoin", "callback"}

\* while a callback runs, the receiver's query object holds what it held
\* when the construct was called
ParentUntouched ==
  Running => /\ builders[plan[1].h].ref = plan[1].ref
             /\ heap[plan[1].ref] = plan[1].pre

\* the builder handed to a branch starts from the receiver's predicate
BranchSeeded ==
  (Running /\ plan[1].kind = "or" /\ last.d.m = "callback") =>
    toQuery(Current) = Assign(DefaultQuery, K("where"), GetKey(plan[1].pre, K("where")))

\* a step taken once the construct has returned, or the step that returns
\* from it, changes the query of no builder of the construct other than the
\* one called
OthersUntouched ==
  (Opened /\ Ended') =>
    \A g \in Subs \cup {plan[1].h} : g # last'.h => toQuery(g)' = toQuery(g)

\* C23: directives executed on the builder of a whereOr branch or of a
\* whereJoin callback never change the receiver's query before the construct
\* reads the result, every branch starts from the predicate the receiver had
\* when whereOr was called, and once the construct has returned a directive
\* on the receiver changes the query of no callback builder and a directive
\* on a callback builder changes neither the receiver's query nor another
\* callback builder's.
C23_SubBuilderIsolation ==
  /\ [](ParentUntouched /\ BranchSeeded)
  /\ [][OthersUntouched]_vars

\* after whereOr returned two alternatives that differ, a branch builder that
\* the caller kept has been called again and its query has changed
C23_Witness ==
  /\ CalledAfter(last.h)
  /\ plan[1].kind = "or"
  /\ plan[1].err = ""
  /\ last.h \in Subs
  /\ last.err = ""
  /\ toQuery(last.h) # last.pre
  /\ \A s \in Subs : Len(hist[s]) >= 1
  /\ isDefined(GetKey(plan[1].pre, K("where")))
  /\ Where(plan[1].h).s[1] # Where(plan[1].h).s[2]

\* --------------------------------------------------------------------- C24
\* the step is a call of toQuery
ToQueryStep == steps' = steps + 1 /\ last'.d.m = "toQuery"

\* the query the latest call left in its receiver, computed from the query
\* it found
LeftBy(call) ==
  Call([cls |-> builders[call.h].cls, query |-> call.pre, ctx |-> builders[call.h].ctx],
       call.d).query

\* C24: toQuery() completes on every handle, open or terminal; it changes
\* no query object and no handle; called right after another toQuery() on
\* the same handle it returns an equal query, and called right after a
\* directive it returns the query that directive left.
C24_ToQueryReads ==
  /\ [](last.d.m = "toQuery" => last.err = "" /\ toQuery(last.h) = last.pre)
  /\ [][ToQueryStep => heap' = heap /\ builders' = builders]_vars
  /\ [][(ToQueryStep /\ last'.h = last.h /\ last.err = "" /\ last.d.m \notin {"new", "from"})
          => toQuery(last.h)' = IF last.d.m = "toQuery" THEN toQuery(last.h)
                                ELSE LeftBy(last)]_vars

\* toQuery() was called on the terminal handle right after whereOr changed
\* the predicate of the receiver
C24_Witness ==
  /\ last.d.m = "toQuery"
  /\ last.err = ""
  /\ builders[last.h].cls \in TerminalClasses
  /\ Where(last.h).t = "arr"
  /\ Len(Where(last.h).s) = 2
  /\ toQuery(last.h) # DefaultQuery

\* --------------------------------------------------------------------- C25
ComparisonMethods ==
  {"whereMoreThan", "whereNotMoreThan", "whereMoreThanOrEqual", "whereNotMoreThanOrEqual",
   "whereLessThan", "whereNotLessThan", "whereLessThanOrEqual", "whereNotLessThanOrEqual",
   "whereBetween"}

\* the latest call is a comparison directive with its value omitted, made on
\* a handle that has the method
ComparisonOmitted ==
  /\ last.d.m \in ComparisonMethods
  /\ last.d.v = Undef
  /\ last.err = ""

\* C25: a comparison directive (whereMoreThan, whereMoreThanOrEqual,
\* whereLessThan, whereLessThanOrEqual, their negated forms, whereBetween)
\* called with an undefined value changes nothing: predicate and relations
\* are what they were and no comparison against a default value is stored.
C25_OmittedComparisonIgnored ==
  ComparisonOmitted =>
    /\ Where(last.h) = GetKey(last.pre, K("where"))
    /\ Relations(last.h) = GetKey(last.pre, K("relations"))

\* C25, what the code does: the comparison is made against 0.
C25_OmittedComparisonAgainstZero ==
  (ComparisonOmitted /\ GetKey(last.pre, K("where")).t # "arr") =>
    GetPath(Where(last.h), Split(last.d.p)) = OperatorOf(last.d.m, Zero, Zero)

\* --------------------------------------------------------------------- C26
\* fetchNext has returned the same non-empty token on every call so far
SameToken ==
  /\ calls # <<>>
  /\ IsTruthy(calls[1])
  /\ \A i \in 1..Len(calls) : calls[i] = calls[1]

\* the latest token returned differs from the one returned before it (from
\* the initial undefined for the first)
TokenChanged ==
  /\ calls # <<>>
  /\ calls[Len(calls)] # (IF Len(calls) = 1 THEN Undef ELSE calls[Len(calls) - 1])

\* C26: when fetchNext keeps returning the same non-empty token, paginate
\* fetches no more once the token has been returned MAX_REPEAT_COUNT times,
\* and the counter is MAX_REPEAT_COUNT again whenever a different token is
\* returned.
C26_RepeatGuard ==
  /\ (SameToken /\ Len(calls) >= MAX_REPEAT_COUNT) => result.done
  /\ TokenChanged => result.repeatCounter = MAX_REPEAT_COUNT

\* C26, what the code does: the loop ends when the token has come back for
\* itself MAX_REPEAT_COUNT times, the call that first returned it not
\* counted, and a different token resets the counter.
C26_RepeatsCounted ==
  /\ SameToken => (result.done <=> Len(calls) = MAX_REPEAT_COUNT + 1)
  /\ SameToken => result.repeatCounter = MAX_REPEAT_COUNT + 1 - Len(calls)
  /\ TokenChanged => result.repeatCounter = MAX_REPEAT_COUNT

\* --------------------------------------------------------------------- C27
\* C27: paginate terminates whatever tokens fetchNext returns, absent,
\* repeating or cycling between several tokens: the loop ends.
C27_PaginateTerminates == <>(result.op = "paginate" /\ result.done)

\* C27, the part that holds: the loop has ended when the token returned is
\* absent or empty, and when the counter has run out.
C27_EndsOnAbsentOrRepeated ==
  (result.op = "paginate" /\ calls # <<>>) =>
    (result.done <=> (~IsTruthy(calls[Len(calls)]) \/ result.repeatCounter <= 0))

\* --------------------------------------------------------------------- C28
\* the retry option of the call, a number
GivenRetry == result.options.retry.t = "num"
\* the failed attempts so far
Failures == Cardinality({i \in 1..Len(result.attempts) : ~result.attempts[i]})

\* what holds at every moment of withRetry(callback, {retry: r})
RetryBounded ==
  (result.op = "withRetry" /\ GivenRetry) =>
    LET r == result.options.retry.n
    IN /\ Len(result.attempts) <= r + 1
       /\ \A i \in 1..Len(result.attempts) : result.attempts[i] => i = Len(result.attempts)
       /\ (result.attempts # <<>> /\ result.attempts[Len(result.attempts)]) =>
            result.pc = "done"
       /\ result.options.next =>
            /\ \A i \in 1..Len(result.nexts) : result.nexts[i] = r - (i - 1)
            /\ result.pc \in {"while", "callback", "done"} => Len(result.nexts) = Failures
       /\ result.pc \in {"next", "while", "callback", "done"} => Len(result.waits) = Failures
       /\ ~result.raised
       /\ (result.pc = "done" /\ Failures = Len(result.attempts) /\ r >= 0) =>
            /\ Len(result.attempts) = r + 1
            /\ result.options.next => result.nexts[Len(result.nexts)] = 0

\* C28: withRetry(callback, {retry: r}) calls callback at most r + 1 times
\* and never again after an attempt that succeeded; after each failed
\* attempt it waits and calls next with the attempts left, r after the
\* first failure down to 0 after the last; and it resolves, without
\* raising, also when all r + 1 attempts fail.
C28_RetryCountsDown ==
  /\ []RetryBounded
  /\ <>(result.pc = "done" /\ ~result.raised)

\* all of the three attempts or more failed, next was called after each,
\* the last time with 0, and the call resolved
C28_Witness ==
  /\ result.op = "withRetry"
  /\ GivenRetry
  /\ result.options.retry.n >= 2
  /\ result.options.next
  /\ result.pc = "done"
  /\ ~result.raised
  /\ Failures = result.options.retry.n + 1
  /\ Len(result.nexts) = Failures
  /\ result.nexts[1] = result.options.retry.n
  /\ result.nexts[Len(result.nexts)] = 0
  /\ Len(result.waits) = Failures

\* --------------------------------------------------------------------- C29
\* the construct has just thrown the error a callback raised
Raised ==
  /\ Opened
  /\ plan[1].err # ""
  /\ last.d.m \in {"whereOr", "whereJoin"}
  /\ last.err # ""

\* C29: when the callback of whereJoin or a branch callback of whereOr
\* raises, the query of the enclosing builder (predicate, relations, order,
\* selection, pagination, cache) is what it was before the whereJoin or
\* whereOr call, also when earlier branches had completed.
C29_ErrorLeavesReceiver ==
  Raised =>
    /\ last.h = plan[1].h
    /\ last.err \in {ERR_IN_JOIN, ERR_IN_OR}
    /\ builders[plan[1].h].ref = plan[1].ref
    /\ heap[plan[1].ref] = plan[1].pre
    /\ toQuery(plan[1].h) = plan[1].pre

\* whereOr threw in its second branch, after the first branch had changed its
\* builder and returned, on a receiver that had a predicate
C29_Witness ==
  /\ Raised
  /\ plan[1].kind = "or"
  /\ Len(plan[1].subs) = 2
  /\ Len(hist[plan[1].subs[1]]) >= 1
  /\ toQuery(plan[1].subs[1]) # toQuery(plan[1].subs[2])
  /\ isDefined(GetKey(plan[1].pre, K("where")))
  /\ last.err = ERR_IN_OR

\* --------------------------------------------------------------------- C30
\* the latest call completed on handle h is toQuery: the object h refers to
\* is the one that call returned
HoldsSnapshot(h) == hist[h] # <<>> /\ hist[h][Len(hist[h])].m = "toQuery"

\* the calls that assign a field of this.query: cache, loadRelationIds and
\* paging, a predicate on a nested path, a direct predicate when where is a
\* list of alternatives
WritesInPlace(call) ==
  \/ call.d.m \in {"cache", "loadRelationIds", "next", "limit", "pagination"}
  \/ /\ call.d.m \in WhereMethods \ {"whereJoin", "whereOr"}
     /\ isNestedPath(call.d.p) \/ GetKey(call.pre, K("where")).t = "arr"

\* C30: the object a toQuery() call returned keeps its contents: no call
\* made afterwards, on the same handle or on another handle over the same
\* query, changes it.
C30_SnapshotStable ==
  [][\A h \in Handles :
       HoldsSnapshot(h) => heap'[builders[h].ref] = heap[builders[h].ref]]_vars

\* C30, the calls that keep the snapshot: those that put a copy in
\* this.query (direct predicates, whereJoin, whereOr, ordering, selection,
\* fetchRelation) and those that fail.
C30_CopyingCallsKeepSnapshot ==
  [][\A h \in Handles :
       (HoldsSnapshot(h) /\ ~WritesInPlace(last'))
         => heap'[builders[h].ref] = heap[builders[h].ref]]_vars
====
